---- MODULE Spec2Model ----
(***************************************************************************)
(* Model of the model registry (mlops/model_registry.py): the lifecycle of *)
(* model versions kept in the tracking store, and the ModelRegistry        *)
(* operations that read and change it.                                     *)
(*                                                                         *)
(* The tracking store is the MLflow client the registry calls.  Its state  *)
(* is `versions` (per registered model, the sequence of its versions, the  *)
(* i-th element being version i) and `runs` (run_id -> metrics).           *)
(* Metric values are integers (hundredths).                                *)
(*                                                                         *)
(* Specifications:                                                         *)
(*   Spec          calls made one after another, the last one observed     *)
(*   SpecArchive   the same, every promotion with archive_existing=True    *)
(*   SpecConc      two processes whose calls interleave store call by      *)
(*                 store call                                              *)
(*   SpecLifecycle register, auto-promote, promote to Production, lookup   *)
(*   SpecRegister  registrations, the metrics dict possibly empty          *)
(*   SpecFrame     every registry operation and a monitoring cycle         *)
(*   SpecList      promotions, then list_models or the registry report     *)
(*                                                                         *)
(* The monitor (scripts/run_monitoring.py) and the drift-check script      *)
(* (scripts/check_drift.py) read the registry, write report files          *)
(* (`reports`: path -> content) and read the clock (`now`).                *)
(*   SpecHealth    the registry is filled, then one health_check           *)
(*   SpecCycle     the registry is filled, then one monitoring cycle       *)
(*   SpecReports   cycles and registry reports as time passes              *)
(*   SpecDrift     drift_monitoring runs as time passes                    *)
(*   SpecPerf      the registry is filled, then one performance_monitoring *)
(*   SpecAlert     one send_alert over a list of channels                  *)
(*   SpecAlerting  one cycle under alerting enabled or not, channels       *)
(*                 well-formed or not                                      *)
(*   SpecSched     the scheduled mode: the loop and its two jobs           *)
(*                                                                         *)
(* The prediction logs (`predictions`: the directory mlops/predictions)    *)
(* are written by mlops/model_monitor.py and read by the drift detector.   *)
(* Accuracies computed from them are floats.                               *)
(*   SpecModelDrift  a directory of logs is found, then detect_model_drift *)
(*   SpecWindow      the same, logs on both sides of the window's edges    *)
(*   SpecPredictions monitor_predictions calls as time passes              *)
(*   SpecDataDrift   one detect_data_drift over two datasets               *)
(***************************************************************************)
EXTENDS Integers, Sequences, FiniteSets, TLC

\* ---------------------------------------------------------------- bounds
\* Total number of versions registered over all models.
MaxVersions == 3

\* ------------------------------------------------------------- constants
Models == {"intent_classifier", "reply_generator"}

Stages == {"None", "Staging", "Production", "Archived"}

\* A metrics / thresholds dict of one entry and of two entries.
Map1(k, x) == [m \in {k} |-> x]

Map2(k1, x1, k2, x2) == [m \in {k1, k2} |-> IF m = k1 THEN x1 ELSE x2]

\* Metrics dicts passed to register_model, per model.
MetricMapsOf(name) ==
    IF name = "intent_classifier"
    THEN {Map1("accuracy", 90), Map2("accuracy", 80, "f1_score", 85)}
    ELSE {Map1("bleu_score", 30)}

\* performance_threshold dicts passed to auto_promote_model.
ThresholdMaps ==
    { Map1("accuracy", 85),
      Map2("accuracy", 80, "f1_score", 85),
      Map1("bleu_score", 30) }

\* Target stages passed to promote_model: promotion and archival.
Targets == {"Staging", "Production", "Archived"}

\* Processes that call the registry concurrently, on ConcModel.
Procs == {"p1", "p2"}

ConcModel == "intent_classifier"

VARIABLES
    versions,   \* tracking store: model name -> sequence of [stage, run_id]
    runs,       \* tracking store: run_id -> metrics dict of the run
    last,       \* the last completed call of the sequential client
    pc,         \* per process: where it is within its call
    loc,        \* per process: the call's arguments, locals and return value
    life,       \* the end-to-end scenario: its phase and what it recorded
    reports,    \* mlops/reports: report path -> content of the file
    now,        \* the wall clock, in ticks
    predictions,\* mlops/predictions: log file name -> content of the file
    sched       \* the scheduled mode: its loop, its jobs and what is due

vars == <<versions, runs, last, pc, loc, life, reports, now, predictions, sched>>

\* ------------------------------------------------------ the tracking store
\* Version numbers of `name` (empty when the model is not registered).
VersionsOf(reg, name) == 1..Len(reg[name])

\* The registered model exists once a version was logged under its name.
Registered(reg, name) == Len(reg[name]) > 0

InStage(reg, name, stage) ==
    {v \in VersionsOf(reg, name) : reg[name][v].stage = stage}

Max(S) == CHOOSE x \in S : \A y \in S : y <= x

\* MlflowClient.get_latest_versions(name, stages=[stage]): the latest
\* (highest-numbered) version in the stage, as a list of zero or one element.
get_latest_versions(reg, name, stage) ==
    IF InStage(reg, name, stage) = {}
    THEN <<>>
    ELSE <<Max(InStage(reg, name, stage))>>

\* MlflowClient.transition_model_version_stage(name, version, stage).
transition_model_version_stage(reg, name, version, stage) ==
    [reg EXCEPT ![name][version].stage = stage]

\* ---------------------------------------------------------- return values
Ret(ok) == [ok |-> ok, raised |-> FALSE]

Raised == [ok |-> FALSE, raised |-> TRUE]

\* --------------------------------------------------------- register_model
\* Faulty variant: logging a version archives the versions the model had.
log_model_archives_previous(reg, rs, name, metrics) ==
    [reg |-> [reg EXCEPT ![name] =
                 Append([v \in 1..Len(@) |-> [@[v] EXCEPT !.stage = "Archived"]],
                        [stage |-> "None", run_id |-> Len(rs) + 1])],
     rs  |-> Append(rs, metrics)]

\* The body of the `with mlflow.start_run(...)` block: a run recording the
\* metrics, and a new version of the model in stage None pointing at it.
log_model(reg, rs, name, metrics) ==
    [reg |-> [reg EXCEPT ![name] =
                 Append(@, [stage |-> "None", run_id |-> Len(rs) + 1])],
     rs  |-> Append(rs, metrics)]

\* The version register_model returns: get_latest_versions(name, ["None"])[0]
\* (an IndexError when no version of the model is in stage None).
register_lookup(reg, name) ==
    LET latest == get_latest_versions(reg, name, "None")
    IN  IF Len(latest) = 0
        THEN Raised
        ELSE [ok |-> TRUE, raised |-> FALSE, version |-> latest[1]]

register_model(reg, rs, name, metrics) ==
    LET logged == log_model(reg, rs, name, metrics)
    IN  [reg |-> logged.reg, rs |-> logged.rs,
         ret |-> register_lookup(logged.reg, name)]

\* ---------------------------------------------------------- promote_model
\* Faulty variant: the archive step is skipped whatever archive_existing says.
existing_models_skipped(reg, name, stage, archive_existing) == <<>>

\* The versions promote_model archives: the store's answer for the target
\* stage when archive_existing, none otherwise.
existing_models(reg, name, stage, archive_existing) ==
    IF archive_existing THEN get_latest_versions(reg, name, stage) ELSE <<>>

\* The archive loop over existing_models.
RECURSIVE archive_loop(_, _, _)
archive_loop(reg, name, existing) ==
    IF existing = <<>>
    THEN reg
    ELSE archive_loop(
             transition_model_version_stage(reg, name, Head(existing), "Archived"),
             name, Tail(existing))

\* Faulty variant: the exception handler falls through to `return True`.
promote_model_returns_true(reg, name, version, stage, archive_existing) ==
    LET archived ==
            archive_loop(reg, name,
                         existing_models(reg, name, stage, archive_existing))
    IN  IF version \in VersionsOf(reg, name)
        THEN [reg |-> transition_model_version_stage(archived, name, version, stage),
              ret |-> Ret(TRUE)]
        ELSE [reg |-> archived, ret |-> Ret(TRUE)]

\* promote_model: the new store state and the value returned.  The store
\* raises for a model that is not registered and for a version that does not
\* exist; the exception is caught and turned into False, and what was
\* written before it stays written.
promote_model(reg, name, version, stage, archive_existing) ==
    LET readRaises == archive_existing /\ ~Registered(reg, name)
        existing == existing_models(reg, name, stage, archive_existing)
        archived == archive_loop(reg, name, existing)
        promoteRaises == version \notin VersionsOf(reg, name)
    IN  IF readRaises
        THEN [reg |-> reg, ret |-> Ret(FALSE)]
        ELSE IF promoteRaises
        THEN [reg |-> archived, ret |-> Ret(FALSE)]
        ELSE [reg |-> transition_model_version_stage(archived, name, version, stage),
              ret |-> Ret(TRUE)]

\* --------------------------------------------------------- get_model_info
\* Faulty variant: the IndexError of `[0]` on an empty list is not caught.
get_model_info_unguarded(reg, rs, name, stage) ==
    LET latest == get_latest_versions(reg, name, stage)
    IN  IF ~Registered(reg, name) \/ Len(latest) = 0
        THEN Raised
        ELSE [ok |-> TRUE, raised |-> FALSE,
              name |-> name, version |-> latest[1], stage |-> stage,
              run_id |-> reg[name][latest[1]].run_id,
              metrics |-> rs[reg[name][latest[1]].run_id]]

get_model_info(reg, rs, name, stage) ==
    LET latest == get_latest_versions(reg, name, stage)
    IN  IF ~Registered(reg, name) \/ Len(latest) = 0
        THEN Ret(FALSE)
        ELSE [ok |-> TRUE, raised |-> FALSE,
              name |-> name, version |-> latest[1], stage |-> stage,
              run_id |-> reg[name][latest[1]].run_id,
              metrics |-> rs[reg[name][latest[1]].run_id]]

\* --------------------------------------------------------- compare_models
\* Faulty variant: a metric missing from one run is taken as zero.
metric_differences_defaulted(m1, m2) ==
    [k \in DOMAIN m1 \cup DOMAIN m2 |->
        (IF k \in DOMAIN m2 THEN m2[k] ELSE 0)
        - (IF k \in DOMAIN m1 THEN m1[k] ELSE 0)]

\* The 'metric_differences' dict built by the loop over run1's metrics.
metric_differences(m1, m2) ==
    [k \in {x \in DOMAIN m1 : x \in DOMAIN m2} |-> m2[k] - m1[k]]

compare_models(reg, rs, name, version1, version2) ==
    IF version1 \notin VersionsOf(reg, name) \/ version2 \notin VersionsOf(reg, name)
    THEN Ret(FALSE)
    ELSE LET run1 == rs[reg[name][version1].run_id]
             run2 == rs[reg[name][version2].run_id]
         IN  [ok |-> TRUE, raised |-> FALSE,
              version1 |-> [version |-> version1, metrics |-> run1],
              version2 |-> [version |-> version2, metrics |-> run2],
              metric_differences |-> metric_differences(run1, run2)]

\* ----------------------------------------------------- auto_promote_model
\* Faulty variant: a threshold whose metric is missing from the run is skipped.
meets_criteria_skips_missing(metrics, performance_threshold) ==
    \A metric \in DOMAIN performance_threshold :
        metric \in DOMAIN metrics
            => ~(metrics[metric] < performance_threshold[metric])

\* meets_criteria after the loop over the thresholds.
meets_criteria(metrics, performance_threshold) ==
    \A metric \in DOMAIN performance_threshold :
        /\ metric \in DOMAIN metrics
        /\ ~(metrics[metric] < performance_threshold[metric])

\* Faulty variant: the candidate goes straight to Production.
auto_promote_model_to_production(reg, rs, name, performance_threshold) ==
    LET latest_models == get_latest_versions(reg, name, "None")
    IN  IF ~Registered(reg, name)
        THEN [reg |-> reg, ret |-> Ret(FALSE)]
        ELSE IF latest_models = <<>>
        THEN [reg |-> reg, ret |-> Ret(FALSE)]
        ELSE IF meets_criteria(rs[reg[name][latest_models[1]].run_id],
                               performance_threshold)
        THEN promote_model(reg, name, latest_models[1], "Production", TRUE)
        ELSE [reg |-> reg, ret |-> Ret(FALSE)]

auto_promote_model(reg, rs, name, performance_threshold) ==
    LET latest_models == get_latest_versions(reg, name, "None")
    IN  IF ~Registered(reg, name)
        THEN [reg |-> reg, ret |-> Ret(FALSE)]
        ELSE IF latest_models = <<>>
        THEN [reg |-> reg, ret |-> Ret(FALSE)]
        ELSE IF meets_criteria(rs[reg[name][latest_models[1]].run_id],
                               performance_threshold)
        THEN promote_model(reg, name, latest_models[1], "Staging", TRUE)
        ELSE [reg |-> reg, ret |-> Ret(FALSE)]

\* ------------------------------------------------------------------ state
Init ==
    /\ versions = [m \in Models |-> <<>>]
    /\ runs = <<>>
    /\ last = [op |-> "init"]
    /\ pc = [p \in Procs |-> "idle"]
    /\ loc = [p \in Procs |-> [op |-> "none"]]
    /\ life = [phase |-> "setup"]
    /\ reports = <<>>
    /\ now = 0
    /\ predictions = [exists |-> TRUE, files |-> <<>>]
    /\ sched = [pc |-> "off", todo |-> <<>>, job |-> "none", running |-> {},
                due |-> <<>>, waited |-> {}, dues |-> 0]

\* ------------------------------------------------- the sequential client
\* Calls are made one after another.  One of them is observed: `last` keeps
\* what was called, with which arguments, what it returned, and the store
\* as it was when the call began.  The calls before it leave no record.
Call(op, args, ret) ==
    [op |-> op, args |-> args, ret |-> ret, pre |-> versions, preRuns |-> runs]

\* No call was observed yet, no process started and no scenario began.
Unobserved == last.op = "init" /\ life.phase = "setup"

Register(name, metrics, observe) ==
    /\ Unobserved
    /\ Len(runs) < MaxVersions
    /\ LET r == register_model(versions, runs, name, metrics)
       IN  /\ versions' = r.reg
           /\ runs' = r.rs
           /\ last' = IF observe
                      THEN Call("register_model",
                                [name |-> name, metrics |-> metrics], r.ret)
                      ELSE last
    /\ UNCHANGED <<pc, loc, life, reports, now, predictions, sched>>

Promote(name, version, stage, archive_existing, observe) ==
    /\ Unobserved
    /\ LET r == promote_model(versions, name, version, stage, archive_existing)
       IN  /\ versions' = r.reg
           /\ last' = IF observe
                      THEN Call("promote_model",
                                [name |-> name, version |-> version,
                                 stage |-> stage,
                                 archive_existing |-> archive_existing],
                                r.ret)
                      ELSE last
    /\ UNCHANGED <<runs, pc, loc, life, reports, now, predictions, sched>>

AutoPromote(name, performance_threshold, observe) ==
    /\ Unobserved
    /\ LET r == auto_promote_model(versions, runs, name, performance_threshold)
       IN  /\ versions' = r.reg
           /\ last' = IF observe
                      THEN Call("auto_promote_model",
                                [name |-> name,
                                 performance_threshold |-> performance_threshold],
                                r.ret)
                      ELSE last
    /\ UNCHANGED <<runs, pc, loc, life, reports, now, predictions, sched>>

GetModelInfo(name, stage) ==
    /\ Unobserved
    /\ last' = Call("get_model_info", [name |-> name, stage |-> stage],
                    get_model_info(versions, runs, name, stage))
    /\ UNCHANGED <<versions, runs, pc, loc, life, reports, now, predictions, sched>>

CompareModels(name, version1, version2) ==
    /\ Unobserved
    /\ last' = Call("compare_models",
                    [name |-> name, version1 |-> version1, version2 |-> version2],
                    compare_models(versions, runs, name, version1, version2))
    /\ UNCHANGED <<versions, runs, pc, loc, life, reports, now, predictions, sched>>

Next ==
    \/ \E name \in Models, observe \in BOOLEAN :
          \E metrics \in MetricMapsOf(name) : Register(name, metrics, observe)
    \/ \E name \in Models, version \in 1..MaxVersions, stage \in Targets,
          archive_existing \in BOOLEAN, observe \in BOOLEAN :
          Promote(name, version, stage, archive_existing, observe)
    \/ \E name \in Models, thr \in ThresholdMaps, observe \in BOOLEAN :
          AutoPromote(name, thr, observe)
    \/ \E name \in Models, stage \in Stages : GetModelInfo(name, stage)
    \/ \E name \in Models, version1 \in 1..MaxVersions, version2 \in 1..MaxVersions :
          CompareModels(name, version1, version2)

Spec == Init /\ [][Next]_vars

\* Every promotion archives: register_model, promote_model with
\* archive_existing=True (its default) and auto_promote_model.
NextArchive ==
    \/ \E name \in Models, observe \in BOOLEAN :
          \E metrics \in MetricMapsOf(name) : Register(name, metrics, observe)
    \/ \E name \in Models, version \in 1..MaxVersions, stage \in Targets,
          observe \in BOOLEAN :
          Promote(name, version, stage, TRUE, observe)
    \/ \E name \in Models, thr \in ThresholdMaps, observe \in BOOLEAN :
          AutoPromote(name, thr, observe)

SpecArchive == Init /\ [][NextArchive]_vars

\* ===================================================== properties (Spec)
Count(reg, name, stage) == Cardinality(InStage(reg, name, stage))

\* C1: under register_model and archiving promotions only, every model has
\* at most one version in Staging and at most one version in Production.
StageExclusivity ==
    \A name \in Models :
        /\ Count(versions, name, "Staging") <= 1
        /\ Count(versions, name, "Production") <= 1

\* C1 witness: an archiving promotion displaced the occupant of Production.
StageExclusivityWitness ==
    /\ last.op = "promote_model"
    /\ last.ret.ok
    /\ last.args.stage = "Production"
    /\ \E v \in InStage(last.pre, last.args.name, "Production") :
          /\ v # last.args.version
          /\ versions[last.args.name][v].stage = "Archived"
    /\ Count(versions, last.args.name, "Staging") = 1

\* The metrics recorded for version v of a model.
MetricsOf(reg, rs, name, v) == rs[reg[name][v].run_id]

\* C3: after a successful promote_model(m, v, S, archive_existing=True),
\* every other version of m that was in S before the call is Archived.
PromoteArchivesEveryExisting ==
    (/\ last.op = "promote_model"
     /\ last.ret.ok
     /\ last.args.archive_existing)
    => \A w \in InStage(last.pre, last.args.name, last.args.stage) :
           w # last.args.version
               => versions[last.args.name][w].stage = "Archived"

\* C4: promote_model never raises; it returns False for a version that does
\* not exist, and for an existing version it returns True with the version
\* in the target stage.
PromoteReturnValue ==
    last.op = "promote_model"
    => /\ ~last.ret.raised
       /\ last.args.version \notin VersionsOf(last.pre, last.args.name)
              => ~last.ret.ok
       /\ last.args.version \in VersionsOf(last.pre, last.args.name)
              => /\ last.ret.ok
                 /\ versions[last.args.name][last.args.version].stage
                        = last.args.stage

\* C4 witness: promote_model of a version the registered model does not
\* have returned False.
PromoteReturnValueWitness ==
    /\ last.op = "promote_model"
    /\ Registered(last.pre, last.args.name)
    /\ last.args.version \notin VersionsOf(last.pre, last.args.name)
    /\ ~last.ret.ok
    /\ ~last.ret.raised

\* The newest version in stage None misses a threshold: there is no such
\* version, or a threshold metric is absent from its run, or below.
MissesThresholds(reg, rs, name, thr) ==
    \/ InStage(reg, name, "None") = {}
    \/ LET m == MetricsOf(reg, rs, name, Max(InStage(reg, name, "None")))
       IN  \E k \in DOMAIN thr : k \notin DOMAIN m \/ m[k] < thr[k]

\* C5: when the candidate misses a threshold, auto_promote_model returns
\* False and no version of any model changes stage.
AutoPromoteAllOrNothing ==
    (/\ last.op = "auto_promote_model"
     /\ MissesThresholds(last.pre, last.preRuns, last.args.name,
                         last.args.performance_threshold))
    => /\ ~last.ret.ok
       /\ versions = last.pre
       /\ runs = last.preRuns

\* C5 witness: the candidate meets the accuracy threshold and lacks the
\* other threshold metric; the call returned False.
AutoPromoteAllOrNothingWitness ==
    /\ last.op = "auto_promote_model"
    /\ InStage(last.pre, last.args.name, "None") # {}
    /\ LET m == MetricsOf(last.pre, last.preRuns, last.args.name,
                          Max(InStage(last.pre, last.args.name, "None")))
           thr == last.args.performance_threshold
       IN  /\ \E k \in DOMAIN thr : k \notin DOMAIN m
           /\ \E k \in DOMAIN thr : k \in DOMAIN m /\ m[k] >= thr[k]
    /\ InStage(last.pre, last.args.name, "Staging") # {}
    /\ ~last.ret.ok

\* C6: when the candidate meets every threshold, auto_promote_model returns
\* True, the candidate is the only version of the model in Staging, the
\* previous occupants of Staging are Archived and nothing else changes.
AutoPromoteSoleStaging ==
    (/\ last.op = "auto_promote_model"
     /\ ~MissesThresholds(last.pre, last.preRuns, last.args.name,
                          last.args.performance_threshold))
    => LET name == last.args.name
           c == Max(InStage(last.pre, name, "None"))
           old == InStage(last.pre, name, "Staging")
       IN  /\ last.ret.ok
           /\ InStage(versions, name, "Staging") = {c}
           /\ \A w \in old : versions[name][w].stage = "Archived"
           /\ \A m \in Models : \A w \in VersionsOf(last.pre, m) :
                 (m # name \/ w \notin old \cup {c})
                     => versions[m][w] = last.pre[m][w]

\* C9: compare_models returns the deltas metrics[v2] - metrics[v1] for
\* exactly the metrics recorded for both versions.
CompareDeltas ==
    (last.op = "compare_models" /\ last.ret.ok)
    => LET m1 == MetricsOf(versions, runs, last.args.name, last.args.version1)
           m2 == MetricsOf(versions, runs, last.args.name, last.args.version2)
           d == last.ret.metric_differences
       IN  /\ DOMAIN d = DOMAIN m1 \cap DOMAIN m2
           /\ \A k \in DOMAIN d : d[k] = m2[k] - m1[k]

\* C9 witness: two versions compared, one of them with a metric the other
\* lacks, and a delta that is not zero.
CompareDeltasWitness ==
    /\ last.op = "compare_models"
    /\ last.ret.ok
    /\ LET m1 == MetricsOf(versions, runs, last.args.name, last.args.version1)
           m2 == MetricsOf(versions, runs, last.args.name, last.args.version2)
       IN  /\ DOMAIN m2 \ DOMAIN m1 # {}
           /\ \E k \in DOMAIN last.ret.metric_differences :
                 last.ret.metric_differences[k] # 0

\* C10: get_model_info with no version in the stage, and compare_models
\* with a version that does not exist, return None, raise nothing and leave
\* the store as it was.
LookupsReturnNone ==
    /\ (/\ last.op = "get_model_info"
        /\ InStage(last.pre, last.args.name, last.args.stage) = {})
       => /\ ~last.ret.ok /\ ~last.ret.raised
          /\ versions = last.pre /\ runs = last.preRuns
    /\ (/\ last.op = "compare_models"
        /\ \/ last.args.version1 \notin VersionsOf(last.pre, last.args.name)
           \/ last.args.version2 \notin VersionsOf(last.pre, last.args.name))
       => /\ ~last.ret.ok /\ ~last.ret.raised
          /\ versions = last.pre /\ runs = last.preRuns

\* C10 witness: get_model_info of a registered model none of whose
\* versions is in Production returned None.
LookupsReturnNoneWitness ==
    /\ last.op = "get_model_info"
    /\ last.args.stage = "Production"
    /\ Registered(last.pre, last.args.name)
    /\ InStage(last.pre, last.args.name, "Production") = {}
    /\ ~last.ret.ok

\* ============================================= calls of several processes
\* The processes start after any calls of the sequential client; from then
\* on only they act.
\* The store as it is when the first process starts its call.
Started == IF last.op = "init"
           THEN [op |-> "concurrent", pre |-> versions]
           ELSE last

\* Target stages of the concurrent promotions.
ConcTargets == {"Staging", "Production"}

\* promote_model(ConcModel, version, stage), lines 98-100: the process reads
\* the versions to archive.  The store raises for an unregistered model.
PromoteRead(p, version, stage) ==
    /\ pc[p] = "idle"
    /\ last.op \in {"init", "concurrent"}
    /\ IF Registered(versions, ConcModel)
       THEN /\ pc' = [pc EXCEPT ![p] = "archive"]
            /\ loc' = [loc EXCEPT ![p] =
                          [op |-> "promote_model", version |-> version,
                           stage |-> stage,
                           existing |-> existing_models(versions, ConcModel,
                                                        stage, TRUE)]]
       ELSE /\ pc' = [pc EXCEPT ![p] = "done"]
            /\ loc' = [loc EXCEPT ![p] =
                          [op |-> "promote_model", version |-> version,
                           stage |-> stage, existing |-> <<>>,
                           ret |-> Ret(FALSE)]]
    /\ last' = Started
    /\ UNCHANGED <<versions, runs, life, reports, now, predictions, sched>>

\* Lines 101-107: the versions read are moved to Archived.
PromoteArchive(p) ==
    /\ pc[p] = "archive"
    /\ versions' = archive_loop(versions, ConcModel, loc[p].existing)
    /\ pc' = [pc EXCEPT ![p] = "transition"]
    /\ UNCHANGED <<runs, last, loc, life, reports, now, predictions, sched>>

\* Lines 110-121: the version is moved to the target stage and True is
\* returned, or the store raises and False is returned.
PromoteTransition(p) ==
    /\ pc[p] = "transition"
    /\ IF loc[p].version \in VersionsOf(versions, ConcModel)
       THEN /\ versions' = transition_model_version_stage(
                               versions, ConcModel, loc[p].version, loc[p].stage)
            /\ loc' = [loc EXCEPT ![p] = [r \in DOMAIN @ \cup {"ret"} |->
                          IF r = "ret" THEN Ret(TRUE) ELSE @[r]]]
       ELSE /\ UNCHANGED versions
            /\ loc' = [loc EXCEPT ![p] = [r \in DOMAIN @ \cup {"ret"} |->
                          IF r = "ret" THEN Ret(FALSE) ELSE @[r]]]
    /\ pc' = [pc EXCEPT ![p] = "done"]
    /\ UNCHANGED <<runs, last, life, reports, now, predictions, sched>>

\* register_model(ConcModel, _, metrics), lines 44-71: the run and the new
\* version are logged; `created` is the version this call created.
RegisterLog(p, metrics) ==
    /\ pc[p] = "idle"
    /\ last.op \in {"init", "concurrent"}
    /\ Len(runs) < MaxVersions
    /\ LET logged == log_model(versions, runs, ConcModel, metrics)
       IN  /\ versions' = logged.reg
           /\ runs' = logged.rs
           /\ loc' = [loc EXCEPT ![p] =
                         [op |-> "register_model", metrics |-> metrics,
                          created |-> Len(logged.reg[ConcModel])]]
    /\ pc' = [pc EXCEPT ![p] = "lookup"]
    /\ last' = Started
    /\ UNCHANGED <<life, reports, now, predictions, sched>>

\* Lines 74-79: the version to return is looked up in stage None.
RegisterLookup(p) ==
    /\ pc[p] = "lookup"
    /\ loc' = [loc EXCEPT ![p] = [r \in DOMAIN @ \cup {"ret"} |->
                  IF r = "ret" THEN register_lookup(versions, ConcModel)
                  ELSE @[r]]]
    /\ pc' = [pc EXCEPT ![p] = "done"]
    /\ UNCHANGED <<versions, runs, last, life, reports, now, predictions, sched>>

NextConc ==
    \/ \E metrics \in MetricMapsOf(ConcModel) :
          Register(ConcModel, metrics, FALSE)
    \/ \E version \in 1..MaxVersions, stage \in Targets :
          Promote(ConcModel, version, stage, TRUE, FALSE)
    \/ \E p \in Procs, version \in 1..MaxVersions, stage \in ConcTargets :
          PromoteRead(p, version, stage)
    \/ \E p \in Procs : PromoteArchive(p)
    \/ \E p \in Procs : PromoteTransition(p)
    \/ \E p \in Procs : \E metrics \in MetricMapsOf(ConcModel) :
          RegisterLog(p, metrics)
    \/ \E p \in Procs : RegisterLookup(p)

SpecConc == Init /\ [][NextConc]_vars

\* ================================================= properties (SpecConc)
\* C2: once two promotions of different versions of the model to the same
\* stage have both returned, exactly one version is in that stage and the
\* version that was in it before is Archived.
ConcurrentPromotionsAtomic ==
    (/\ \A p \in Procs : pc[p] = "done" /\ loc[p].op = "promote_model"
     /\ loc["p1"].stage = loc["p2"].stage
     /\ loc["p1"].version # loc["p2"].version
     /\ \A p \in Procs : loc[p].version \in VersionsOf(last.pre, ConcModel))
    => /\ Count(versions, ConcModel, loc["p1"].stage) = 1
       /\ \A w \in InStage(last.pre, ConcModel, loc["p1"].stage) :
             w \notin {loc["p1"].version, loc["p2"].version}
                 => versions[ConcModel][w].stage = "Archived"

\* C7: register_model returns the identifier of the version it created, in
\* stage None with the given metrics, whatever the other process does.
RegisterReturnsOwnVersion ==
    \A p \in Procs :
        (pc[p] = "done" /\ loc[p].op = "register_model")
        => /\ loc[p].ret.ok
           /\ ~loc[p].ret.raised
           /\ loc[p].ret.version = loc[p].created
           /\ MetricsOf(versions, runs, ConcModel, loc[p].created)
                  = loc[p].metrics

\* ================================================ the end-to-end scenario
\* register_model, then auto_promote_model with thresholds the registered
\* metrics meet, then promote_model to Production, then lookups (and
\* registrations, which promote nothing), after any earlier calls.
ThresholdsMetBy(metrics) ==
    {thr \in ThresholdMaps :
        \A k \in DOMAIN thr : k \in DOMAIN metrics /\ metrics[k] >= thr[k]}

LifeRegister(name, metrics) ==
    /\ Unobserved
    /\ Len(runs) < MaxVersions
    /\ LET r == register_model(versions, runs, name, metrics)
       IN  /\ versions' = r.reg
           /\ runs' = r.rs
           /\ life' = [phase |-> "registered", name |-> name,
                       metrics |-> metrics, version |-> r.ret.version]
    /\ UNCHANGED <<last, pc, loc, reports, now, predictions, sched>>

LifeAutoPromote(thr) ==
    /\ life.phase = "registered"
    /\ thr \in ThresholdsMetBy(life.metrics)
    /\ LET r == auto_promote_model(versions, runs, life.name, thr)
       IN  /\ versions' = r.reg
           /\ life' = [phase |-> "staged", name |-> life.name,
                       metrics |-> life.metrics, version |-> life.version,
                       auto |-> r.ret]
    /\ UNCHANGED <<runs, last, pc, loc, reports, now, predictions, sched>>

LifePromote ==
    /\ life.phase = "staged"
    /\ LET r == promote_model(versions, life.name, life.version,
                              "Production", TRUE)
       IN  /\ versions' = r.reg
           /\ life' = [phase |-> "production", name |-> life.name,
                       metrics |-> life.metrics, version |-> life.version,
                       auto |-> life.auto, promote |-> r.ret,
                       prior |-> InStage(versions, life.name, "Production")]
    /\ UNCHANGED <<runs, last, pc, loc, reports, now, predictions, sched>>

LifeRegisterLater(name, metrics) ==
    /\ life.phase \in {"production", "queried"}
    /\ Len(runs) < MaxVersions
    /\ LET r == register_model(versions, runs, name, metrics)
       IN  versions' = r.reg /\ runs' = r.rs
    /\ UNCHANGED <<last, pc, loc, life, reports, now, predictions, sched>>

LifeGetModelInfo ==
    /\ life.phase \in {"production", "queried"}
    /\ life' = [phase |-> "queried", name |-> life.name,
                metrics |-> life.metrics, version |-> life.version,
                auto |-> life.auto, promote |-> life.promote,
                prior |-> life.prior,
                info |-> get_model_info(versions, runs, life.name, "Production")]
    /\ UNCHANGED <<versions, runs, last, pc, loc, reports, now, predictions, sched>>

NextLifecycle ==
    \/ \E name \in Models : \E metrics \in MetricMapsOf(name) :
          Register(name, metrics, FALSE)
    \/ \E name \in Models, version \in 1..MaxVersions, stage \in Targets,
          archive_existing \in BOOLEAN :
          Promote(name, version, stage, archive_existing, FALSE)
    \/ \E name \in Models : \E metrics \in MetricMapsOf(name) :
          LifeRegister(name, metrics)
    \/ \E thr \in ThresholdMaps : LifeAutoPromote(thr)
    \/ LifePromote
    \/ \E name \in Models : \E metrics \in MetricMapsOf(name) :
          LifeRegisterLater(name, metrics)
    \/ LifeGetModelInfo

SpecLifecycle == Init /\ [][NextLifecycle]_vars

\* ============================================ properties (SpecLifecycle)
\* auto_promote_model returned True and put the registered version in
\* Staging.
LifecycleStaged ==
    life.phase \in {"staged", "production", "queried"}
    => /\ life.auto.ok
       /\ life.phase = "staged"
              => versions[life.name][life.version].stage = "Staging"

\* promote_model put the version in Production and every version that was
\* in Production before it in Archived.
LifecyclePromoted ==
    life.phase \in {"production", "queried"}
    => /\ life.promote.ok
       /\ versions[life.name][life.version].stage = "Production"
       /\ \A w \in life.prior :
             w # life.version => versions[life.name][w].stage = "Archived"

\* get_model_info(m, "Production") returns the version with the metrics of
\* its registration.
LifecycleInfo ==
    life.phase = "queried"
    => /\ life.info.ok
       /\ life.info.version = life.version
       /\ life.info.metrics = life.metrics

\* C8: register_model, auto_promote_model with thresholds met and
\* promote_model to Production put the version in Staging and then in
\* Production with the prior Production version Archived, and get_model_info
\* then returns the version with the metrics of its registration.
LifecycleEndToEnd == LifecycleStaged /\ LifecyclePromoted /\ LifecycleInfo

\* ================================== register_model with any metrics dict
\* The empty metrics dict: the loop over metrics.items() logs nothing.
EmptyMetrics == [k \in {} |-> 0]

\* Registrations whose metrics dict may be empty, the last one observed.
NextRegister ==
    \E name \in Models, observe \in BOOLEAN :
        \E metrics \in MetricMapsOf(name) \cup {EmptyMetrics} :
            Register(name, metrics, observe)

SpecRegister == Init /\ [][NextRegister]_vars

\* C11: register_model called with an empty metrics dict raises and
\* creates no run and no model version.
RegisterRejectsEmptyMetrics ==
    (last.op = "register_model" /\ DOMAIN last.args.metrics = {})
    => /\ last.ret.raised
       /\ versions = last.pre
       /\ runs = last.preRuns

\* ======================================================= clock and files
\* The clock counts ticks; a tick is the time one call takes, and a minute
\* has TicksPerMinute of them.
TicksPerMinute == 2

\* The clock stops at MaxTime.
MaxTime == 3

\* datetime.now().strftime('%Y%m%d_%H%M'): the time cut to its minute.
strftime(t) == t \div TicksPerMinute

\* with open(path, 'w') as f: json.dump(content, f) -- the file is created,
\* or truncated and rewritten when it exists.
write_file(fs, path, content) ==
    [p \in DOMAIN fs \cup {path} |-> IF p = path THEN content ELSE fs[p]]

\* ------------------------------------------------------------ list_models
\* list_models(stage=None): no stage filter.
NoFilter == "<none>"

\* RegisteredModel.latest_versions: the latest version of each stage.
latest_versions(reg, name) ==
    {Max(InStage(reg, name, stage)) :
        stage \in {st \in Stages : InStage(reg, name, st) # {}}}

\* The versions of a model that pass the stage filter.
listed_versions(reg, name, stage) ==
    {v \in latest_versions(reg, name) :
        stage = NoFilter \/ reg[name][v].stage = stage}

\* list_models: per listed model, its 'versions' list.
list_models(reg, rs, stage) ==
    LET listed == {name \in Models :
                      /\ Registered(reg, name)
                      /\ listed_versions(reg, name, stage) # {} \/ stage = NoFilter}
    IN  [name \in listed |->
            {[version |-> v, stage |-> reg[name][v].stage,
              metrics |-> rs[reg[name][v].run_id]] :
                v \in listed_versions(reg, name, stage)}]

\* -------------------------------------------------- generate_model_report
\* The 'summary' counters.
model_report_summary(models) ==
    [total_models |-> Cardinality(DOMAIN models),
     production_models |->
        Cardinality({<<name, i>> \in
            UNION {{<<m, x>> : x \in models[m]} : m \in DOMAIN models} :
                i.stage = "Production"}),
     staging_models |->
        Cardinality({<<name, i>> \in
            UNION {{<<m, x>> : x \in models[m]} : m \in DOMAIN models} :
                i.stage = "Staging"})]

model_report_path(t) == [kind |-> "model_registry_report", stamp |-> strftime(t)]

\* generate_model_report at time t: the files after it and the path returned.
generate_model_report(reg, rs, fs, t) ==
    LET models == list_models(reg, rs, NoFilter)
        report == [timestamp |-> t, models |-> models,
                   summary |-> model_report_summary(models)]
    IN  [fs |-> write_file(fs, model_report_path(t), report),
         ret |-> [ok |-> TRUE, raised |-> FALSE, path |-> model_report_path(t)]]

\* =========================================== scripts/run_monitoring.py
\* The models the monitor iterates over, in the order of its loops.
ManagedModels == <<"intent_classifier", "reply_generator">>

\* What requests.get on the health endpoint does: a response with a status
\* code, or an exception (timeout, connection error).
ApiOutcomes == {"200", "503", "timeout", "connection_error"}

api_raises(api) == api \in {"timeout", "connection_error"}

\* -------------------------------------------------------------- health_check
\* health_status['status'] after the serving probe: only the except branch
\* assigns it.
status_after_api(api) ==
    IF api_raises(api) THEN "unhealthy" ELSE "healthy"

\* health_status['checks']['api'].
api_check(api) ==
    IF api_raises(api)
    THEN [status |-> "unhealthy", error |-> api]
    ELSE [status |-> IF api = "200" THEN "healthy" ELSE "unhealthy",
          status_code |-> api]

\* health_status['status'] after the tracking-server probe.
status_after_mlflow(status, mlflow_ok) ==
    IF mlflow_ok THEN status ELSE "unhealthy"

\* health_status['checks']['mlflow'].
mlflow_check(mlflow_ok) ==
    IF mlflow_ok
    THEN [status |-> "healthy"]
    ELSE [status |-> "unhealthy", error |-> "mlflow"]

\* models_status: per managed model, whether get_model_info found a
\* Production version.
models_status(reg, rs) ==
    [name \in Models |->
        IF get_model_info(reg, rs, name, "Production").ok
        THEN "available" ELSE "unavailable"]

\* health_status['status'] after the loop over the managed models: every
\* unavailable model assigns 'degraded'.
status_after_models(status, availability) ==
    IF \E name \in Models : availability[name] = "unavailable"
    THEN "degraded"
    ELSE status

\* Faulty variant: the serving probe is made outside the try block.
health_check_probe_unguarded(reg, rs, api, mlflow_ok, t) ==
    LET availability == models_status(reg, rs)
    IN  IF api_raises(api)
        THEN Raised
        ELSE [ok |-> TRUE, raised |-> FALSE,
              timestamp |-> t,
              status |-> status_after_models(
                             status_after_mlflow(status_after_api(api), mlflow_ok),
                             availability),
              checks |-> [api |-> api_check(api),
                          mlflow |-> mlflow_check(mlflow_ok),
                          models |-> availability]]

\* health_check: the two probes are made inside try blocks; the loop over
\* the models is not, and an exception of get_model_info would end the call.
health_check(reg, rs, api, mlflow_ok, t) ==
    LET availability == models_status(reg, rs)
    IN  IF \E name \in Models : get_model_info(reg, rs, name, "Production").raised
        THEN Raised
        ELSE [ok |-> TRUE, raised |-> FALSE,
              timestamp |-> t,
              status |-> status_after_models(
                             status_after_mlflow(status_after_api(api), mlflow_ok),
                             availability),
              checks |-> [api |-> api_check(api),
                          mlflow |-> mlflow_check(mlflow_ok),
                          models |-> availability]]

\* ================================================ floating-point numbers
\* Accuracies, their means and their differences are Python floats: binary
\* floating-point numbers, every result rounded to the nearest one, ties to
\* the even mantissa.  A float is kept as the integer x with value
\* x / 2^Scale.  The mantissa has MantissaBits bits where the IEEE double
\* has 53: the binary expansion of a decimal fraction repeats every 4 bits,
\* so the roundings fall the same way as with 53.
MantissaBits == 9

\* The smallest exponent of a number that is rounded.
MinExponent == 0 - 8

Scale == MantissaBits - 1 - MinExponent

RECURSIVE Pow2(_)
Pow2(n) == IF n = 0 THEN 1 ELSE 2 * Pow2(n - 1)

\* The e with 2^e <= num/den < 2^(e+1), for num/den > 0.
RECURSIVE Exponent(_, _)
Exponent(num, den) ==
    IF num >= 2 * den THEN Exponent(num, 2 * den) + 1
    ELSE IF num < den THEN Exponent(2 * num, den) - 1
    ELSE 0

\* a / b rounded to the nearest integer, ties to even.
RoundHalfEven(a, b) ==
    LET n == a \div b
        r == a % b
    IN  IF 2 * r > b \/ (2 * r = b /\ n % 2 = 1) THEN n + 1 ELSE n

\* The float nearest to num/den (num >= 0, den > 0).
Round(num, den) ==
    IF num = 0
    THEN 0
    ELSE LET e == Exponent(num, den)
             shift == MantissaBits - 1 - e
         IN  RoundHalfEven(num * Pow2(shift), den) * Pow2(Scale - shift)

\* k / n, as accuracy_score computes it, and the float of a literal k/n.
FloatOf(k, n) == Round(k, n)

\* The float nearest to x / 2^Scale.  An x below 2^MantissaBits is a float
\* already: its mantissa fits.
RoundScaled(x) == IF x < Pow2(MantissaBits) THEN x ELSE Round(x, Pow2(Scale))

FloatAdd(x, y) == RoundScaled(x + y)

FloatDiv(x, n) == Round(x, n * Pow2(Scale))

\* x - y: the magnitude is rounded, the sign kept.
FloatSub(x, y) == IF x >= y THEN RoundScaled(x - y) ELSE 0 - RoundScaled(y - x)

\* ------------------------------------------------------------- the config
\* config['monitoring']['alert_thresholds'].get('accuracy_drop', 0.1).
DefaultAccuracyDrop == 10

\* The mlops section of config/mlops_config.yaml, as far as the monitor
\* reads it: the alert_thresholds dict, whether data_quality.validation_rules
\* is there and how many rules it has, and the alerting section: enabled
\* and channels, a list of dicts (a dict is a function from its keys).
FullConfig ==
    [alert_thresholds |-> Map2("intent_classifier", 5, "reply_generator", 5),
     has_validation_rules |-> TRUE,
     validation_rules |-> 2,
     alerting |-> [enabled |-> TRUE,
                   channels |-> <<[type |-> "email",
                                   recipients |-> "ops@example.com"],
                                  [type |-> "slack"]>>]]

\* The same without a data_quality section.
MinimalConfig ==
    [alert_thresholds |-> Map2("intent_classifier", 5, "reply_generator", 5),
     has_validation_rules |-> FALSE,
     validation_rules |-> 0,
     alerting |-> FullConfig.alerting]

Configs == {FullConfig, MinimalConfig}

\* -------------------------------------------------------------- send_alert
\* The loop over the channels from the i-th on: the attempts made so far
\* and whether a KeyError left the loop.  channel['type'] and
\* channel['recipients'] raise KeyError on a dict without the key;
\* channel.get('webhook_url', ..) does not.
RECURSIVE send_loop(_, _, _)
send_loop(channels, i, attempts) ==
    IF i > Len(channels)
    THEN [attempts |-> attempts, raised |-> FALSE]
    ELSE LET channel == channels[i]
         IN  IF "type" \notin DOMAIN channel
             THEN [attempts |-> attempts, raised |-> TRUE]
             ELSE IF channel.type = "email"
             THEN IF "recipients" \notin DOMAIN channel
                  THEN [attempts |-> attempts, raised |-> TRUE]
                  ELSE send_loop(channels, i + 1,
                                 Append(attempts,
                                        [channel |-> i, to |-> channel.recipients]))
             ELSE IF channel.type = "slack"
             THEN send_loop(channels, i + 1,
                            Append(attempts,
                                   [channel |-> i,
                                    to |-> IF "webhook_url" \in DOMAIN channel
                                           THEN channel.webhook_url
                                           ELSE "configured webhook"]))
             ELSE send_loop(channels, i + 1, attempts)

send_alert(alerting, subject) ==
    IF ~alerting.enabled
    THEN [attempts |-> <<>>, raised |-> FALSE]
    ELSE send_loop(alerting.channels, 1, <<>>)

\* ------------------------------------------------- performance_monitoring
\* The prediction logs of one model modified in the last 24 hours: none,
\* some of which none can be read, some without the 'true'/'predicted'
\* columns, or some that give an aggregate accuracy.
PerfLogs ==
    { [files |-> "none", accuracy |-> 0],
      [files |-> "unreadable", accuracy |-> 0],
      [files |-> "no_columns", accuracy |-> 0],
      [files |-> "scored", accuracy |-> 70] }

\* combined_df['true'] raises KeyError.
perf_raises(perf) == \E name \in Models : perf[name].files = "no_columns"

\* performance_report['models'][model_name], for the models that get one.
perf_entries(perf) ==
    [name \in {m \in Models : perf[m].files \in {"none", "scored"}} |->
        IF perf[name].files = "none"
        THEN [status |-> "no_recent_predictions", accuracy |-> 0]
        ELSE [status |-> "measured", accuracy |-> perf[name].accuracy]]

\* The threshold check of one model: whether send_alert is called.  The
\* accuracies and the threshold are floats, kept here in hundredths.
perf_alert(reg, rs, name, logs, cfg) ==
    /\ logs.files = "scored"
    /\ name \in DOMAIN cfg.alert_thresholds
    /\ LET threshold ==
               IF "accuracy_drop" \in DOMAIN cfg.alert_thresholds
               THEN cfg.alert_thresholds["accuracy_drop"]
               ELSE DefaultAccuracyDrop
           model_info == get_model_info(reg, rs, name, "Production")
       IN  /\ model_info.ok
           /\ "accuracy" \in DOMAIN model_info.metrics
           /\ FloatSub(FloatOf(model_info.metrics["accuracy"], 100),
                       FloatOf(logs.accuracy, 100)) > FloatOf(threshold, 100)

\* send_alert is called outside any try: what it raises leaves
\* performance_monitoring.  alerts: the calls of send_alert.
performance_monitoring(reg, rs, perf, cfg, t) ==
    LET alerts == {[subject |-> "Performance Alert", model |-> name] :
                      name \in {m \in Models :
                                   perf_alert(reg, rs, m, perf[m], cfg)}}
    IN  IF perf_raises(perf)
        THEN Raised
        ELSE IF \E alert \in alerts :
                   send_alert(cfg.alerting, alert.subject).raised
        THEN Raised
        ELSE [ok |-> TRUE, raised |-> FALSE,
              timestamp |-> t,
              models |-> perf_entries(perf),
              alerts |-> alerts]

\* ------------------------------------------------ scripts/check_drift.py
\* One run of `python scripts/check_drift.py --model ...`: what
\* detect_model_drift yields (drift_detected true, false, or None for no
\* verdict) and where the run fails: nowhere, while the subprocess is
\* started ("spawn"), in the detector before a verdict ("detector"), or in
\* the MLflow logging that follows a verdict of drift ("logging").
DriftRuns ==
    { [verdict |-> "drift",    fails |-> "no"],
      [verdict |-> "drift",    fails |-> "logging"],
      [verdict |-> "no_drift", fails |-> "no"],
      [verdict |-> "none",     fails |-> "no"],
      [verdict |-> "none",     fails |-> "detector"],
      [verdict |-> "none",     fails |-> "spawn"] }

drift_report_path(t) == [kind |-> "drift_report", stamp |-> strftime(t)]

\* main() of check_drift.py never calls sys.exit: the process exits with 0
\* when main returns and with 1 when an exception ends it.  It writes the
\* drift report once there is a verdict, and logs a run when the verdict is
\* drift.
check_drift_main(fs, rs, name, run, t) ==
    IF run.fails = "detector"
    THEN [fs |-> fs, rs |-> rs, returncode |-> 1]
    ELSE LET written ==
                 write_file(fs, drift_report_path(t),
                            [timestamp |-> t, model |-> name,
                             model_drift |-> run.verdict])
         IN  IF run.verdict = "drift" /\ run.fails = "logging"
             THEN [fs |-> written, rs |-> rs, returncode |-> 1]
             ELSE IF run.verdict = "drift"
             THEN [fs |-> written,
                   rs |-> Append(rs, Map1("drift_detected", 1)),
                   returncode |-> 0]
             ELSE [fs |-> written, rs |-> rs, returncode |-> 0]

\* --------------------------------------------------------- drift_monitoring
\* drift_report['models'][model_name]['status'] from the subprocess result.
drift_status(run, returncode) ==
    IF run.fails = "spawn" THEN "error"
    ELSE IF returncode = 0 THEN "no_drift"
    ELSE "drift_detected"

\* The loop over the managed models, from the i-th on: the files and runs
\* the subprocesses leave, and the status per model.
RECURSIVE drift_loop(_, _, _, _, _, _)
drift_loop(fs, rs, drift, t, i, statuses) ==
    IF i > Len(ManagedModels)
    THEN [fs |-> fs, rs |-> rs, statuses |-> statuses]
    ELSE LET name == ManagedModels[i]
             run == drift[name]
             sub == IF run.fails = "spawn"
                    THEN [fs |-> fs, rs |-> rs, returncode |-> 1]
                    ELSE check_drift_main(fs, rs, name, run, t)
         IN  drift_loop(sub.fs, sub.rs, drift, t, i + 1,
                        [statuses EXCEPT ![name] = drift_status(run, sub.returncode)])

\* For a model whose check exits with non-zero the status is set to
\* drift_detected, the flag raised and send_alert called, all within the
\* try: when send_alert raises, the except sets the model's status to error
\* and the flag stays.  alerts: the calls of send_alert.
drift_monitoring(fs, rs, drift, cfg, t) ==
    LET looped == drift_loop(fs, rs, drift, t, 1, [name \in Models |-> "pending"])
        drifted == {name \in Models : looped.statuses[name] = "drift_detected"}
    IN  [fs |-> looped.fs, rs |-> looped.rs,
         ret |-> [ok |-> TRUE, raised |-> FALSE,
                  timestamp |-> t,
                  drift_detected |-> drifted # {},
                  models |-> [name \in Models |->
                                 IF /\ name \in drifted
                                    /\ send_alert(cfg.alerting,
                                                  "Drift Alert").raised
                                 THEN "error"
                                 ELSE looped.statuses[name]],
                  alerts |-> {[subject |-> "Drift Alert", model |-> name] :
                                 name \in drifted}]]

\* -------------------------------------------------- data_quality_monitoring
\* len(self.config['data_quality']['validation_rules']): a KeyError when the
\* config has no such entry.
data_quality_monitoring(cfg, t) ==
    IF ~cfg.has_validation_rules
    THEN Raised
    ELSE [ok |-> TRUE, raised |-> FALSE, timestamp |-> t,
          status |-> "passed", checks_performed |-> cfg.validation_rules]

\* ----------------------------------------------- generate_monitoring_report
\* Faulty variant: a degraded health check degrades the overall status.
overall_status_from_health(health_status, drift_detected) ==
    IF health_status = "unhealthy" THEN "unhealthy"
    ELSE IF drift_detected \/ health_status = "degraded" THEN "degraded"
    ELSE "healthy"

\* report['overall_status'] after the if/elif.
overall_status(health_status, drift_detected) ==
    IF health_status = "unhealthy" THEN "unhealthy"
    ELSE IF drift_detected THEN "degraded"
    ELSE "healthy"

monitoring_report_path(t) == [kind |-> "monitoring_report", stamp |-> strftime(t)]

\* What one cycle meets: the serving probe's outcome, whether the tracking
\* server answers, the recent prediction logs and the drift-check run of
\* each model, and the config.
CycleInput(api, mlflow_ok, perf, drift, cfg) ==
    [api |-> api, mlflow_ok |-> mlflow_ok, perf |-> perf, drift |-> drift,
     cfg |-> cfg]

\* Faulty variant: the status is derived and the report written when three
\* sub-checks have returned, before data_quality_monitoring is called.
generate_monitoring_report_before_quality(reg, rs, fs, inp, t) ==
    LET health_data == health_check(reg, rs, inp.api, inp.mlflow_ok, t)
        performance_data == performance_monitoring(reg, rs, inp.perf, inp.cfg, t)
        drifted == drift_monitoring(fs, rs, inp.drift, inp.cfg, t)
        data_quality_data == data_quality_monitoring(inp.cfg, t)
        status == IF health_data.raised
                  THEN "none"
                  ELSE overall_status(health_data.status,
                                      drifted.ret.drift_detected)
        report ==
            [timestamp |-> t,
             overall_status |-> status,
             health_check |-> health_data,
             performance_monitoring |-> performance_data,
             drift_monitoring |-> drifted.ret,
             data_quality |-> data_quality_data,
             summary |-> [alerts_triggered |->
                              IF status = "degraded" THEN 1 ELSE 0]]
        written == write_file(drifted.fs, monitoring_report_path(t), report)
    IN  IF health_data.raised \/ performance_data.raised
        THEN [rs |-> rs, fs |-> fs, ret |-> Raised]
        ELSE IF data_quality_data.raised
        THEN [rs |-> drifted.rs, fs |-> written, ret |-> Raised]
        ELSE [rs |-> drifted.rs, fs |-> written,
              ret |-> [ok |-> TRUE, raised |-> FALSE,
                       path |-> monitoring_report_path(t),
                       report |-> report]]

\* generate_monitoring_report at time t: the four sub-checks one after the
\* other with nothing caught around them, then the report file.  An
\* exception of a sub-check ends the call there: what the earlier sub-checks
\* wrote stays, nothing later happens.
generate_monitoring_report(reg, rs, fs, inp, t) ==
    LET health_data == health_check(reg, rs, inp.api, inp.mlflow_ok, t)
        performance_data == performance_monitoring(reg, rs, inp.perf, inp.cfg, t)
        drifted == drift_monitoring(fs, rs, inp.drift, inp.cfg, t)
        drift_data == drifted.ret
        data_quality_data == data_quality_monitoring(inp.cfg, t)
        status == IF health_data.raised
                  THEN "none"
                  ELSE overall_status(health_data.status, drift_data.drift_detected)
        report ==
            [timestamp |-> t,
             overall_status |-> status,
             health_check |-> health_data,
             performance_monitoring |-> performance_data,
             drift_monitoring |-> drift_data,
             data_quality |-> data_quality_data,
             summary |-> [alerts_triggered |->
                              IF status = "degraded" THEN 1 ELSE 0]]
    IN  IF health_data.raised \/ performance_data.raised
        THEN [rs |-> rs, fs |-> fs, ret |-> Raised]
        ELSE IF data_quality_data.raised
        THEN [rs |-> drifted.rs, fs |-> drifted.fs, ret |-> Raised]
        ELSE [rs |-> drifted.rs,
              fs |-> write_file(drifted.fs, monitoring_report_path(t), report),
              ret |-> [ok |-> TRUE, raised |-> FALSE,
                       path |-> monitoring_report_path(t),
                       report |-> report]]

\* ------------------------------------------------------ the monitor's calls
\* The record of an observed call of the monitor or of a report: as Call,
\* with the report files as they were and the time of the call.
MonCall(op, args, ret) ==
    [op |-> op, args |-> args, ret |-> ret, pre |-> versions,
     preRuns |-> runs, preReports |-> reports, at |-> now]

\* Time passes between two calls.
Tick ==
    /\ Unobserved
    /\ now < MaxTime
    /\ now' = now + 1
    /\ UNCHANGED <<versions, runs, last, pc, loc, life, reports, predictions, sched>>

ListModels(stage) ==
    /\ Unobserved
    /\ last' = MonCall("list_models", [stage |-> stage],
                       [ok |-> TRUE, raised |-> FALSE,
                        models |-> list_models(versions, runs, stage)])
    /\ UNCHANGED <<versions, runs, pc, loc, life, reports, now, predictions, sched>>

GenerateModelReport(observe) ==
    /\ Unobserved
    /\ now < MaxTime
    /\ LET r == generate_model_report(versions, runs, reports, now)
       IN  /\ reports' = r.fs
           /\ last' = IF observe
                      THEN MonCall("generate_model_report", [none |-> TRUE], r.ret)
                      ELSE last
    /\ now' = now + 1
    /\ UNCHANGED <<versions, runs, pc, loc, life, predictions, sched>>

HealthCheck(api, mlflow_ok) ==
    /\ Unobserved
    /\ now < MaxTime
    /\ last' = MonCall("health_check", [api |-> api, mlflow_ok |-> mlflow_ok],
                       health_check(versions, runs, api, mlflow_ok, now))
    /\ now' = now + 1
    /\ UNCHANGED <<versions, runs, pc, loc, life, reports, predictions, sched>>

\* drift_monitoring of a monitor that loaded the full config.
DriftMonitoring(drift, observe) ==
    /\ Unobserved
    /\ now < MaxTime
    /\ LET r == drift_monitoring(reports, runs, drift, FullConfig, now)
       IN  /\ reports' = r.fs
           /\ runs' = r.rs
           /\ last' = IF observe
                      THEN MonCall("drift_monitoring", [drift |-> drift], r.ret)
                      ELSE last
    /\ now' = now + 1
    /\ UNCHANGED <<versions, pc, loc, life, predictions, sched>>

GenerateMonitoringReport(inp, observe) ==
    /\ Unobserved
    /\ now < MaxTime
    /\ LET r == generate_monitoring_report(versions, runs, reports, inp, now)
       IN  /\ reports' = r.fs
           /\ runs' = r.rs
           /\ last' = IF observe
                      THEN MonCall("generate_monitoring_report", inp, r.ret)
                      ELSE last
    /\ now' = now + 1
    /\ UNCHANGED <<versions, pc, loc, life, predictions, sched>>

\* ================================ every operation, one of them observed
\* The same logs, or the same drift-check run, for every managed model.
AllModels(x) == [name \in Models |-> x]

\* Cycles with the serving endpoint up or down and with or without drift.
FrameInputs ==
    {CycleInput(api, TRUE, AllModels([files |-> "scored", accuracy |-> 70]),
                AllModels(run), FullConfig) :
        api \in {"200", "connection_error"},
        run \in {[verdict |-> "drift", fails |-> "no"],
                 [verdict |-> "no_drift", fails |-> "no"]}}

\* The registry's operations (promotions archiving), its reports and the
\* monitoring cycle.
NextFrame ==
    \/ NextArchive
    \/ \E name \in Models, stage \in Stages : GetModelInfo(name, stage)
    \/ \E name \in Models, version1 \in 1..MaxVersions, version2 \in 1..MaxVersions :
          CompareModels(name, version1, version2)
    \/ \E stage \in Stages \cup {NoFilter} : ListModels(stage)
    \/ GenerateModelReport(TRUE)
    \/ \E inp \in FrameInputs : GenerateMonitoringReport(inp, TRUE)

SpecFrame == Init /\ [][NextFrame]_vars

\* C12: no call removes a version or gives it another run, and a call other
\* than promote_model and auto_promote_model leaves the stage of every
\* version that existed before it unchanged.
StagesChangeOnlyByPromotion ==
    last.op # "init"
    => /\ \A m \in Models :
             /\ Len(versions[m]) >= Len(last.pre[m])
             /\ \A v \in VersionsOf(last.pre, m) :
                   versions[m][v].run_id = last.pre[m][v].run_id
       /\ last.op \notin {"promote_model", "auto_promote_model"}
              => \A m \in Models : \A v \in VersionsOf(last.pre, m) :
                     versions[m][v].stage = last.pre[m][v].stage

\* C12 witness: a monitoring cycle that logged a drift run and wrote its
\* report, over a registry with a version in Production and one in Archived.
StagesChangeOnlyByPromotionWitness ==
    /\ last.op = "generate_monitoring_report"
    /\ last.ret.ok
    /\ runs # last.preRuns
    /\ reports # last.preReports
    /\ \E m \in Models :
          /\ InStage(versions, m, "Production") # {}
          /\ InStage(versions, m, "Archived") # {}

\* ======================================= properties of auto_promote_model
\* C13: every stage change made by auto_promote_model is None -> Staging,
\* of the candidate, or Staging -> Archived, of a version of the same model;
\* no version enters Production and no Archived version changes stage.
AutoPromoteRestricted ==
    last.op = "auto_promote_model"
    => \A m \in Models : \A v \in VersionsOf(last.pre, m) :
          LET before == last.pre[m][v].stage
              after == versions[m][v].stage
          IN  /\ before # after
                 => /\ m = last.args.name
                    /\ \/ /\ before = "None" /\ after = "Staging"
                          /\ v = Max(InStage(last.pre, m, "None"))
                       \/ before = "Staging" /\ after = "Archived"
              /\ after = "Production" => before = "Production"
              /\ before = "Archived" => after = "Archived"

\* C13 witness: auto_promote_model staged the candidate and archived the
\* version that was in Staging, next to a version in Production.
AutoPromoteRestrictedWitness ==
    /\ last.op = "auto_promote_model"
    /\ last.ret.ok
    /\ \E v \in InStage(last.pre, last.args.name, "Staging") :
          versions[last.args.name][v].stage = "Archived"
    /\ \E m \in Models : InStage(last.pre, m, "Production") # {}

\* ============================================== health_check, observed
\* The registry is filled and versions are promoted; then health_check is
\* called once.
NextHealth ==
    \/ \E name \in Models : \E metrics \in MetricMapsOf(name) :
          Register(name, metrics, FALSE)
    \/ \E name \in Models, version \in 1..MaxVersions, stage \in Targets :
          Promote(name, version, stage, TRUE, FALSE)
    \/ \E api \in ApiOutcomes, mlflow_ok \in BOOLEAN : HealthCheck(api, mlflow_ok)

SpecHealth == Init /\ [][NextHealth]_vars

\* Some managed model has no version in Production.
LacksProduction(reg) == \E name \in Models : InStage(reg, name, "Production") = {}

\* C14: health_check returns unhealthy when the serving probe fails,
\* otherwise degraded when a managed model has no Production version,
\* otherwise healthy.
HealthAggregate ==
    last.op = "health_check"
    => last.ret.status =
          IF api_raises(last.args.api) THEN "unhealthy"
          ELSE IF LacksProduction(last.pre) THEN "degraded"
          ELSE "healthy"

\* C15: a serving probe that answers with a status other than 200, or that
\* times out, gives the overall status a connection error gives, and that
\* status is unhealthy when every managed model has a Production version.
ProbeFailureIsUnhealthy ==
    (last.op = "health_check" /\ last.args.api # "200")
    => /\ last.ret.status =
             health_check(last.pre, last.preRuns, "connection_error",
                          last.args.mlflow_ok, last.at).status
       /\ ~LacksProduction(last.pre) => last.ret.status = "unhealthy"

\* C16: whatever the serving probe, the tracking-server probe and the
\* lookups of the models do, health_check raises nothing and returns an
\* entry for the serving probe, one for the tracking server and an
\* availability entry for each managed model.
HealthChecksIsolated ==
    last.op = "health_check"
    => /\ ~last.ret.raised
       /\ last.ret.ok
       /\ last.ret.checks.api.status
             = (IF last.args.api = "200" THEN "healthy" ELSE "unhealthy")
       /\ last.ret.checks.mlflow.status
             = (IF last.args.mlflow_ok THEN "healthy" ELSE "unhealthy")
       /\ DOMAIN last.ret.checks.models = Models
       /\ \A name \in Models :
             last.ret.checks.models[name]
                = (IF InStage(last.pre, name, "Production") = {}
                   THEN "unavailable" ELSE "available")

\* C16 witness: the serving probe raised, the tracking server did not
\* answer, one model is not registered and another has no Production
\* version; health_check returned its three entries.
HealthChecksIsolatedWitness ==
    /\ last.op = "health_check"
    /\ api_raises(last.args.api)
    /\ ~last.args.mlflow_ok
    /\ \E name \in Models : ~Registered(last.pre, name)
    /\ \E name \in Models :
          Registered(last.pre, name) /\ InStage(last.pre, name, "Production") = {}
    /\ last.ret.ok
    /\ \A name \in Models : last.ret.checks.models[name] = "unavailable"

\* ======================================== one monitoring cycle, observed
\* What the observed cycle meets: the serving endpoint answering 200 or 503
\* or not reachable, the tracking server up or down, for every model recent
\* logs with or without the 'true'/'predicted' columns and a drift check
\* that exits with 0, exits with 1 or cannot be started, either config.
CycleInputs ==
    {CycleInput(api, mlflow_ok, AllModels(logs), AllModels(run), cfg) :
        api \in {"200", "503", "connection_error"},
        mlflow_ok \in BOOLEAN,
        logs \in {l \in PerfLogs : l.files \in {"scored", "no_columns"}},
        run \in {r \in DriftRuns : r.verdict # "drift"},
        cfg \in Configs}

\* The registry is filled and versions go to Production; then one cycle runs.
NextCycle ==
    \/ \E name \in Models : \E metrics \in MetricMapsOf(name) :
          Register(name, metrics, FALSE)
    \/ \E name \in Models, version \in 1..MaxVersions :
          Promote(name, version, "Production", TRUE, FALSE)
    \/ \E inp \in CycleInputs : GenerateMonitoringReport(inp, TRUE)

SpecCycle == Init /\ [][NextCycle]_vars

\* C17: the report's overall_status is unhealthy when the health check's
\* status is unhealthy, otherwise degraded when the drift summary's
\* drift_detected is set, otherwise healthy; the file holds that report.
OverallStatusDerivation ==
    (last.op = "generate_monitoring_report" /\ last.ret.ok)
    => LET report == last.ret.report
       IN  /\ report.overall_status =
                 (IF report.health_check.status = "unhealthy" THEN "unhealthy"
                  ELSE IF report.drift_monitoring.drift_detected THEN "degraded"
                  ELSE "healthy")
           /\ reports[last.ret.path] = report

\* C17 witness: a cycle whose health check is degraded and whose drift
\* checks found nothing reported healthy.
OverallStatusDerivationWitness ==
    /\ last.op = "generate_monitoring_report"
    /\ last.ret.ok
    /\ last.ret.report.health_check.status = "degraded"
    /\ ~last.ret.report.drift_monitoring.drift_detected
    /\ last.ret.report.overall_status = "healthy"
    /\ \E name \in Models : InStage(last.pre, name, "Production") # {}

\* C18: generate_monitoring_report raises nothing, whatever a sub-check
\* raises, and the report it returns is written.
CycleAlwaysReports ==
    last.op = "generate_monitoring_report"
    => /\ ~last.ret.raised
       /\ last.ret.ok
       /\ last.ret.path \in DOMAIN reports
       /\ reports[last.ret.path] = last.ret.report

\* ================================================ reports over the cycles
\* Cycles that return: the serving endpoint up or down, no recent logs, no
\* drift.
ReportInputs ==
    {CycleInput(api, TRUE, AllModels([files |-> "none", accuracy |-> 0]),
                AllModels([verdict |-> "no_drift", fails |-> "no"]), FullConfig) :
        api \in {"200", "connection_error"}}

\* Models are registered, time passes, monitoring cycles and registry
\* reports are run, the last of them observed.
NextReports ==
    \/ \E name \in Models : \E metrics \in MetricMapsOf(name) :
          Register(name, metrics, FALSE)
    \/ Tick
    \/ \E inp \in ReportInputs, observe \in BOOLEAN :
          GenerateMonitoringReport(inp, observe)
    \/ \E observe \in BOOLEAN : GenerateModelReport(observe)

SpecReports == Init /\ [][NextReports]_vars

\* C19: a monitoring cycle, or a registry report, that returns has written
\* a file that did not exist, and every report file that existed is still
\* there with the content it had.
ReportsNeverOverwritten ==
    (/\ last.op \in {"generate_monitoring_report", "generate_model_report"}
     /\ last.ret.ok)
    => /\ last.ret.path \notin DOMAIN last.preReports
       /\ \A p \in DOMAIN last.preReports :
             /\ p \in DOMAIN reports
             /\ p.kind = last.ret.path.kind => reports[p] = last.preReports[p]

\* ============================================ drift_monitoring, observed
\* Time passes and drift_monitoring runs (it is also a scheduled task of its
\* own), each model's drift check ending in any of the ways it can.
NextDrift ==
    \/ Tick
    \/ \E drift \in [Models -> DriftRuns], observe \in BOOLEAN :
          DriftMonitoring(drift, observe)

SpecDrift == Init /\ [][NextDrift]_vars

\* The drift alert of a model was sent.
DriftAlerted(ret, name) ==
    [subject |-> "Drift Alert", model |-> name] \in ret.alerts

\* C20: drift_monitoring reports drift for a model, alerts and sets
\* drift_detected when detect_model_drift found drift for it; it reports no
\* drift for a model whose check ran to its end without finding drift; and
\* drift_detected is set only when drift is reported for some model.
DriftReportedWhenDetected ==
    last.op = "drift_monitoring"
    => /\ \A name \in Models :
             LET run == last.args.drift[name]
                 reported == last.ret.models[name] = "drift_detected"
             IN  /\ (run.verdict = "drift" /\ run.fails # "spawn")
                        => /\ reported
                           /\ DriftAlerted(last.ret, name)
                           /\ last.ret.drift_detected
                 /\ (run.verdict # "drift" /\ run.fails = "no")
                        => ~reported /\ ~DriftAlerted(last.ret, name)
       /\ last.ret.drift_detected
             <=> \E name \in Models : last.ret.models[name] = "drift_detected"

\* ======================================================== prediction logs
\* The directory mlops/predictions: predictions.files maps the path of a
\* log, <prefix>_<date>.csv, to its content.  The date of a path is the
\* text after the last '_': it parses as %Y%m%d, and then names a day, or
\* it does not.  A content that parses as CSV is the sequence of the batches
\* of rows written to it; a batch is kept by its number of rows and the
\* number of rows whose true and predicted labels agree.
RowsPerLog == 10

MinutesPerDay == 1440

TicksPerDay == MinutesPerDay * TicksPerMinute

\* datetime.now().strftime("%Y%m%d"), and datetime.strptime(.., "%Y%m%d"):
\* the midnight that begins the day.
strftime_day(t) == [parses |-> TRUE, day |-> t \div TicksPerDay]

strptime_day(date) == date.day * TicksPerDay

LogPath(prefix, date) == [prefix |-> prefix, date |-> date]

\* The '_'-separated parts of a name.
name_tokens(s) ==
    CASE s = "intent_classifier" -> <<"intent", "classifier">>
      [] s = "intent_classifier_v2" -> <<"intent", "classifier", "v2">>
      [] s = "reply_generator" -> <<"reply", "generator">>
      [] OTHER -> <<s>>

\* predictions_dir.glob(f"{model_name}_*.csv"): the paths whose name begins
\* with the model's name and a '_'.
glob_matches(model_name, path) ==
    LET m == name_tokens(model_name)
        f == name_tokens(path.prefix)
    IN  /\ Len(m) <= Len(f)
        /\ \A i \in 1..Len(m) : f[i] = m[i]

Batch(correct, rows) == [correct |-> correct, rows |-> rows]

Csv(batches) == [kind |-> "csv", batches |-> batches]

\* A file pd.read_csv raises on (empty, binary, ragged lines).
Unreadable == [kind |-> "unreadable", batches |-> <<>>]

\* A CSV file without the columns 'true' and 'predicted'.
NoColumns == [kind |-> "no_columns", batches |-> <<>>]

RECURSIVE SumOf(_, _)
SumOf(batches, field) ==
    IF batches = <<>>
    THEN 0
    ELSE batches[1][field] + SumOf(Tail(batches), field)

\* accuracy_score(df['true'], df['predicted']): the fraction of the rows
\* whose two labels agree, a float.
accuracy_score(content) ==
    FloatOf(SumOf(content.batches, "correct"), SumOf(content.batches, "rows"))

\* ------------------------------------------------------ detect_model_drift
performance_drift_threshold == FloatOf(1, 10)

WindowDays == 7

\* The result when there is no verdict: None.
None == [none |-> TRUE]

\* Path order, as sorted() compares them: the dates of one prefix in date
\* order; a digit sorts before a letter, so the logs named <model>_<date>
\* come before those named <model>_<more>_<date>.
path_before(p, q) ==
    IF p.prefix = q.prefix
    THEN p.date.day < q.date.day
    ELSE Len(name_tokens(p.prefix)) < Len(name_tokens(q.prefix))

RECURSIVE sorted(_)
sorted(paths) ==
    IF paths = {}
    THEN <<>>
    ELSE LET first == CHOOSE p \in paths :
                          \A q \in paths \ {p} : path_before(p, q)
         IN  <<first>> \o sorted(paths \ {first})

\* The logs of the window: the date parses (strptime raises otherwise and
\* the path is skipped) and start_date <= file_date <= end_date.
prediction_files(dir, model_name, window_days, t) ==
    {p \in DOMAIN dir.files :
        /\ glob_matches(model_name, p)
        /\ p.date.parses
        /\ t - window_days * TicksPerDay <= strptime_day(p.date)
        /\ strptime_day(p.date) <= t}

\* np.mean: the sum, left to right, divided by the count.
RECURSIVE np_sum(_)
np_sum(xs) ==
    IF Len(xs) = 1
    THEN xs[1]
    ELSE FloatAdd(np_sum(SubSeq(xs, 1, Len(xs) - 1)), xs[Len(xs)])

detect_model_drift(dir, model_name, window_days, t) ==
    IF ~dir.exists
    THEN Ret(None)
    ELSE LET chosen == prediction_files(dir, model_name, window_days, t)
             files  == sorted(chosen)
             scored == SelectSeq(files, LAMBDA p : dir.files[p].kind = "csv")
             daily  == [i \in 1..Len(scored) |->
                           accuracy_score(dir.files[scored[i]])]
         IN  IF Cardinality(chosen) < 2
             THEN Ret(None)
             ELSE IF \E p \in chosen : dir.files[p].kind = "unreadable"
             THEN Raised
             ELSE IF Len(daily) < 2
             THEN Ret(None)
             ELSE LET baseline == FloatDiv(np_sum(SubSeq(daily, 1, Len(daily) - 1)),
                                           Len(daily) - 1)
                      current  == daily[Len(daily)]
                      drop     == FloatSub(baseline, current)
                  IN  Ret([none |-> FALSE,
                           model_name |-> model_name,
                           baseline_accuracy |-> baseline,
                           current_accuracy |-> current,
                           performance_drop |-> drop,
                           drift_detected |-> drop > performance_drift_threshold,
                           threshold |-> performance_drift_threshold])

\* The directory as a run finds it: written by earlier runs of the serving
\* process, by hand, or never created.
LogsFound(dir) ==
    /\ Unobserved
    /\ predictions = [exists |-> TRUE, files |-> <<>>]
    /\ predictions' = dir
    /\ UNCHANGED <<versions, runs, last, pc, loc, life, reports, now, sched>>

DetectModelDrift(model_name, window_days) ==
    /\ Unobserved
    /\ last' = MonCall("detect_model_drift",
                       [model_name |-> model_name, window_days |-> window_days],
                       detect_model_drift(predictions, model_name,
                                          window_days, now))
    /\ UNCHANGED <<versions, runs, pc, loc, life, reports, now, predictions,
                   sched>>

\* Directories of up to five logs: three days of intent_classifier (today,
\* yesterday, the first day of the window), a log of it with a bad date and
\* a log of reply_generator.
Absent == [kind |-> "absent", batches |-> <<>>]

Scored(k) == Csv(<<Batch(k, RowsPerLog)>>)

DriftLogNames ==
    {LogPath("intent_classifier", [parses |-> TRUE, day |-> d]) :
         d \in {0, 0 - 1, 0 - WindowDays}}
    \cup {LogPath("intent_classifier", [parses |-> FALSE, day |-> 0]),
          LogPath("reply_generator", [parses |-> TRUE, day |-> 0])}

DriftLogContents(path) ==
    IF path.prefix = "reply_generator"
    THEN {Absent, Scored(RowsPerLog - 2)}
    ELSE IF ~path.date.parses
    THEN {Absent, Unreadable, Scored(RowsPerLog - 2)}
    ELSE {Absent, Unreadable, NoColumns}
         \cup {Scored(k) : k \in (RowsPerLog - 3)..(RowsPerLog - 1)}

DriftLogDirs ==
    {[exists |-> FALSE, files |-> <<>>]}
    \cup {[exists |-> TRUE,
           files |-> [p \in {q \in DriftLogNames : c[q] # Absent} |-> c[p]]] :
             c \in {c \in [DriftLogNames ->
                              UNION {DriftLogContents(p) : p \in DriftLogNames}] :
                        \A p \in DriftLogNames : c[p] \in DriftLogContents(p)}}

NextModelDrift ==
    \/ Tick
    \/ \E dir \in DriftLogDirs : LogsFound(dir)
    \/ \E model_name \in Models : DetectModelDrift(model_name, WindowDays)

SpecModelDrift == Init /\ [][NextModelDrift]_vars

\* The logs of the call that qualify, oldest first: of the model, dated in
\* the window, with the two columns.
QualifyingDays ==
    SelectSeq(sorted(prediction_files(predictions, last.args.model_name,
                                      last.args.window_days, last.at)),
              LAMBDA p : predictions.files[p].kind = "csv")

CorrectOf(path) == SumOf(predictions.files[path].batches, "correct")

RECURSIVE CorrectSum(_)
CorrectSum(paths) ==
    IF paths = <<>> THEN 0 ELSE CorrectOf(paths[1]) + CorrectSum(Tail(paths))

\* baseline - current > 1/10, in exact arithmetic, every log holding
\* RowsPerLog rows: (sum of the others / (n * rows)) - last / rows > 1/10.
DropExceedsThreshold(days) ==
    LET n == Len(days) - 1
    IN  10 * (CorrectSum(SubSeq(days, 1, n)) - n * CorrectOf(days[n + 1]))
            > n * RowsPerLog

\* C21: detect_model_drift sets drift_detected exactly when the mean
\* accuracy of the earlier qualifying days minus the accuracy of the most
\* recent one is strictly greater than the threshold 0.1; an equal or
\* smaller drop is not flagged.
ModelDriftStrictThreshold ==
    (last.op = "detect_model_drift" /\ ~last.ret.raised /\ ~last.ret.ok.none)
        => (last.ret.ok.drift_detected <=> DropExceedsThreshold(QualifyingDays))

\* C22: with fewer than two qualifying days detect_model_drift returns
\* None.
InsufficientWindowIsNone ==
    (last.op = "detect_model_drift" /\ Len(QualifyingDays) < 2)
        => (~last.ret.raised /\ last.ret.ok.none)

\* C23: detect_model_drift never raises on a malformed or unreadable log;
\* the verdict is that of the directory without the file.
MalformedLogsSkipped ==
    last.op = "detect_model_drift" => ~last.ret.raised

\* ------------------------------------- performance_monitoring, on its own
PerformanceMonitoring(perf, cfg) ==
    /\ Unobserved
    /\ now < MaxTime
    /\ last' = MonCall("performance_monitoring", [perf |-> perf, cfg |-> cfg],
                       performance_monitoring(versions, runs, perf, cfg, now))
    /\ now' = now + 1
    /\ UNCHANGED <<versions, runs, pc, loc, life, reports, predictions, sched>>

NextPerf ==
    \/ \E name \in Models : \E metrics \in MetricMapsOf(name) :
          Register(name, metrics, FALSE)
    \/ \E name \in Models, version \in 1..MaxVersions, stage \in Targets :
          Promote(name, version, stage, TRUE, FALSE)
    \/ \E perf \in [Models -> PerfLogs \cup {[files |-> "scored", accuracy |-> 80]}],
          cfg \in Configs :
          PerformanceMonitoring(perf, cfg)

SpecPerf == Init /\ [][NextPerf]_vars

\* The Production version of the model records a baseline accuracy, and the
\* baseline minus the current accuracy exceeds the model's own threshold.
DropExceedsModelThreshold(name) ==
    LET model_info == get_model_info(last.pre, last.preRuns, name, "Production")
    IN  /\ model_info.ok
        /\ "accuracy" \in DOMAIN model_info.metrics
        /\ name \in DOMAIN last.args.cfg.alert_thresholds
        /\ FloatSub(FloatOf(model_info.metrics["accuracy"], 100),
                    FloatOf(last.args.perf[name].accuracy, 100))
               > FloatOf(last.args.cfg.alert_thresholds[name], 100)

\* C24: performance_monitoring alerts for a model exactly when the model
\* has recent scored logs, its Production version records a baseline
\* accuracy and baseline - current is strictly greater than the threshold
\* alert_thresholds configures for that model.
AlertByModelThreshold ==
    (last.op = "performance_monitoring" /\ ~last.ret.raised)
        => \A name \in Models :
               ([subject |-> "Performance Alert", model |-> name]
                    \in last.ret.alerts)
               <=> (/\ last.args.perf[name].files = "scored"
                    /\ DropExceedsModelThreshold(name))

\* C25: the performance report has an entry for every managed model:
\* no_recent_predictions without recent logs, the aggregate accuracy
\* otherwise, also when recent logs cannot be read.
PerfEntryForEveryModel ==
    (last.op = "performance_monitoring" /\ ~last.ret.raised)
        => \A name \in Models :
               /\ name \in DOMAIN last.ret.models
               /\ (last.ret.models[name].status = "no_recent_predictions")
                      <=> (last.args.perf[name].files = "none")

\* ============================================================= send_alert
\* config['alerting']: enabled, and channels, a list of dicts.  A dict is a
\* function from its keys.
MaxChannels == 3

\* The channel dicts of the lists: email with recipients, email written as
\* {type, destination}, slack with and without webhook_url, a type the
\* loop does not know, and a dict without 'type'.
ChannelKinds ==
    {[type |-> "email", recipients |-> "ops@example.com"],
     [type |-> "email", destination |-> "ops@example.com"],
     [type |-> "slack", webhook_url |-> "https://hooks/x"],
     [type |-> "slack"],
     [type |-> "pagerduty", destination |-> "oncall"],
     [destination |-> "ops@example.com"]}

SendAlert(alerting, subject) ==
    /\ Unobserved
    /\ last' = MonCall("send_alert", [alerting |-> alerting, subject |-> subject],
                       send_alert(alerting, subject))
    /\ UNCHANGED <<versions, runs, pc, loc, life, reports, now, predictions,
                   sched>>

NextAlert ==
    \E enabled \in BOOLEAN,
       channels \in UNION {[1..n -> ChannelKinds] : n \in 0..MaxChannels},
       subject \in {"Performance Alert", "Drift Alert"} :
        SendAlert([enabled |-> enabled, channels |-> channels], subject)

SpecAlert == Init /\ [][NextAlert]_vars

\* A channel send_alert knows how to deliver to.
Deliverable(channel) ==
    /\ "type" \in DOMAIN channel
    /\ \/ channel.type = "slack"
       \/ channel.type = "email" /\ "recipients" \in DOMAIN channel

\* C26: with alerting enabled send_alert never raises, and attempts the
\* delivery on every deliverable channel whatever the other channels are.
ChannelsIsolated ==
    (last.op = "send_alert" /\ last.args.alerting.enabled)
        => /\ ~last.ret.raised
           /\ \A i \in 1..Len(last.args.alerting.channels) :
                 Deliverable(last.args.alerting.channels[i])
                     => \E k \in 1..Len(last.ret.attempts) :
                            last.ret.attempts[k].channel = i

\* ========================================================= scheduled mode
\* run_scheduled_monitoring: two jobs are registered with the schedule
\* library, then `while True: schedule.run_pending(); time.sleep(60)`.
\* run_pending collects the jobs that are due, then calls them one after
\* the other, in the loop's own thread; a job is rescheduled when it has
\* returned; an exception of a job is not caught, neither by run_pending
\* nor by the loop.
\*   sched.pc       where the loop is: "off", "loop" (about to call
\*                  run_pending), "dispatch" (inside run_pending, between
\*                  two jobs), "running" (inside a job), "sleeping",
\*                  "terminated" (an exception left the loop), "blocked" (the
\*                  job it called never returns)
\*   sched.todo     the due jobs run_pending collected and has yet to call
\*   sched.job      the job called last
\*   sched.running  the jobs that are executing
\*   sched.due      the jobs whose next run time has come, oldest first
\*   sched.waited   the due jobs that became due while a job was executing
\*   sched.dues     how many times a job became due
Jobs == {"generate_monitoring_report", "drift_monitoring"}

MaxDue == 3

\* Faulty variant: the job is started in a thread of its own and
\* run_pending goes on.
run_job_threaded(s, job) ==
    [s EXCEPT !.pc = "dispatch", !.job = job, !.running = @ \cup {job},
              !.todo = Tail(@)]

\* run_pending calls the job: job.run() -> self.job_func().
run_job(s, job) ==
    [s EXCEPT !.pc = "running", !.job = job, !.running = @ \cup {job},
              !.todo = Tail(@)]

\* The job returned: it is rescheduled (its next run lies ahead) and
\* run_pending goes on with the next one.
job_returned(s) ==
    [s EXCEPT !.pc = "dispatch",
              !.running = @ \ {s.job},
              !.due = SelectSeq(@, LAMBDA j : j # s.job),
              !.waited = @ \ {s.job}]

\* The job raised: the exception leaves run_pending and the while loop,
\* run_scheduled_monitoring ends.
job_raised(s) == [s EXCEPT !.pc = "terminated", !.running = {}]

StartScheduled ==
    /\ Unobserved
    /\ sched.pc = "off"
    /\ sched' = [sched EXCEPT !.pc = "loop"]
    /\ UNCHANGED <<versions, runs, last, pc, loc, life, reports, now,
                   predictions>>

\* The next run time of a job comes.
BecomeDue(job) ==
    /\ sched.pc # "off"
    /\ sched.dues < MaxDue
    /\ \A i \in 1..Len(sched.due) : sched.due[i] # job
    /\ sched' = [sched EXCEPT !.due = Append(@, job),
                              !.dues = @ + 1,
                              !.waited = IF sched.running # {}
                                         THEN @ \cup {job}
                                         ELSE @]
    /\ UNCHANGED <<versions, runs, last, pc, loc, life, reports, now,
                   predictions>>

RunPending ==
    /\ sched.pc = "loop"
    /\ sched' = [sched EXCEPT !.pc = "dispatch", !.todo = sched.due]
    /\ UNCHANGED <<versions, runs, last, pc, loc, life, reports, now,
                   predictions>>

DispatchJob ==
    /\ sched.pc = "dispatch"
    /\ sched.todo # <<>>
    /\ sched' = run_job(sched, Head(sched.todo))
    /\ UNCHANGED <<versions, runs, last, pc, loc, life, reports, now,
                   predictions>>

\* The job generate_monitoring_report runs to its end: it returns or raises.
ReportJobEnds(inp) ==
    /\ sched.pc = "running"
    /\ sched.job = "generate_monitoring_report"
    /\ now < MaxTime
    /\ LET r == generate_monitoring_report(versions, runs, reports, inp, now)
       IN  /\ reports' = r.fs
           /\ runs' = r.rs
           /\ sched' = IF r.ret.raised THEN job_raised(sched)
                                       ELSE job_returned(sched)
    /\ now' = now + 1
    /\ UNCHANGED <<versions, last, pc, loc, life, predictions>>

\* The job drift_monitoring runs to its end: every exception of a model's
\* check is caught inside it.
DriftJobEnds(drift) ==
    /\ sched.pc = "running"
    /\ sched.job = "drift_monitoring"
    /\ now < MaxTime
    /\ LET r == drift_monitoring(reports, runs, drift, FullConfig, now)
       IN  /\ reports' = r.fs
           /\ runs' = r.rs
           /\ sched' = IF r.ret.raised THEN job_raised(sched)
                                       ELSE job_returned(sched)
    /\ now' = now + 1
    /\ UNCHANGED <<versions, last, pc, loc, life, predictions>>

\* The job waits for something that never answers: subprocess.run is called
\* without a timeout, and so are the calls to the tracking store.
JobHangs ==
    /\ sched.pc = "running"
    /\ sched' = [sched EXCEPT !.pc = "blocked"]
    /\ UNCHANGED <<versions, runs, last, pc, loc, life, reports, now,
                   predictions>>

\* run_pending has called every job it collected; time.sleep(60).
EndPending ==
    /\ sched.pc = "dispatch"
    /\ sched.todo = <<>>
    /\ sched' = [sched EXCEPT !.pc = "sleeping"]
    /\ UNCHANGED <<versions, runs, last, pc, loc, life, reports, now,
                   predictions>>

Wake ==
    /\ sched.pc = "sleeping"
    /\ sched' = [sched EXCEPT !.pc = "loop"]
    /\ UNCHANGED <<versions, runs, last, pc, loc, life, reports, now,
                   predictions>>

\* What the jobs meet: everything answers and the logs are scored, with
\* either config; the drift checks find no drift or die in the detector.
NextSched ==
    \/ StartScheduled
    \/ \E job \in Jobs : BecomeDue(job)
    \/ RunPending
    \/ DispatchJob
    \/ \E cfg \in Configs :
          ReportJobEnds(CycleInput("200", TRUE,
                                   AllModels([files |-> "scored", accuracy |-> 70]),
                                   AllModels([verdict |-> "no_drift", fails |-> "no"]),
                                   cfg))
    \/ \E run \in {[verdict |-> "no_drift", fails |-> "no"],
                    [verdict |-> "none", fails |-> "detector"]} :
          DriftJobEnds(AllModels(run))
    \/ JobHangs
    \/ EndPending
    \/ Wake

SpecSched == Init /\ [][NextSched]_vars

\* C27: in scheduled mode the loop never stops dispatching: no failing task
\* terminates it and no unresponsive dependency blocks it.
LoopNeverStops == sched.pc \notin {"terminated", "blocked"}

\* C28: the scheduled tasks are mutually exclusive: at most one job is
\* executing, and a job that became due while another ran is executing
\* only when that one has returned.
JobsMutuallyExclusive ==
    /\ Cardinality(sched.running) <= 1
    /\ \A job \in sched.running : sched.job = job /\ sched.pc \in {"running", "blocked"}

\* A job that became due while the other was executing is now executing,
\* alone.
JobsMutuallyExclusiveWitness ==
    /\ sched.pc = "running"
    /\ sched.job \in sched.waited
    /\ sched.running = {sched.job}

\* ===================================================== monitor_predictions
\* monitor_predictions(y_true, y_pred, model_name) at time t: the accuracy
\* of the batch is logged as a run of the tracking store (log_metrics), then
\* the rows go to <model_name>_<day>.csv with DataFrame.to_csv(path,
\* index=False), whose mode is 'w': the file is created, or truncated and
\* rewritten.  Without the directory to_csv raises, after the run was logged.
\* The run holds the accuracy in hundredths, as the runs of the registry do.
monitor_predictions(dir, rs, model_name, batch, t) ==
    LET metrics == Map2("accuracy", (100 * batch.correct) \div batch.rows,
                        "timestamp", t)
        path == LogPath(model_name, strftime_day(t))
    IN  IF ~dir.exists
        THEN [dir |-> dir, rs |-> Append(rs, metrics), ret |-> Raised]
        ELSE [dir |-> [dir EXCEPT !.files = write_file(@, path, Csv(<<batch>>))],
              rs |-> Append(rs, metrics),
              ret |-> Ret(None)]

\* The record of an observed call on the prediction logs: as MonCall, with
\* the directory as it was.
LogCall(op, args, ret) ==
    [op |-> op, args |-> args, ret |-> ret, pre |-> versions,
     preRuns |-> runs, preReports |-> reports, at |-> now,
     prePredictions |-> predictions]

MonitorPredictions(model_name, batch, observe) ==
    /\ Unobserved
    /\ now < MaxTime
    /\ LET r == monitor_predictions(predictions, runs, model_name, batch, now)
       IN  /\ predictions' = r.dir
           /\ runs' = r.rs
           /\ last' = IF observe
                      THEN LogCall("monitor_predictions",
                                   [model_name |-> model_name, batch |-> batch],
                                   r.ret)
                      ELSE last
    /\ now' = now + 1
    /\ UNCHANGED <<versions, pc, loc, life, reports, sched>>

\* Batches of two rows: one right, both right.
NextPredictions ==
    \E model_name \in Models, batch \in {Batch(1, 2), Batch(2, 2)},
       observe \in BOOLEAN :
        MonitorPredictions(model_name, batch, observe)

SpecPredictions == Init /\ [][NextPredictions]_vars

\* C29: the day's log of a model is append-only: after a monitor_predictions
\* call it holds what it held before the call, followed by the rows of the
\* call.
PredictionLogAppendOnly ==
    (last.op = "monitor_predictions" /\ ~last.ret.raised)
        => LET path == LogPath(last.args.model_name, strftime_day(last.at))
               before == IF path \in DOMAIN last.prePredictions.files
                         THEN last.prePredictions.files[path].batches
                         ELSE <<>>
           IN  /\ path \in DOMAIN predictions.files
               /\ predictions.files[path].batches
                      = Append(before, last.args.batch)

\* ======================================================= detect_data_drift
\* A dataset is a function from the names of its columns to the column: how
\* many non-missing values it has (what dropna() leaves) and whether its
\* dtype is numeric.  The statistical tests are not computed here: the
\* p-value a test yields for a column is given, in thousandths.  The
\* chi-square test raises, where the installed scipy checks it, when the
\* observed and the expected counts do not sum to the same number: when the
\* two columns differ in their number of non-missing values.
MaxValues == 2

data_drift_threshold == 50

FeatureNames == {"subject_length", "category"}

is_numeric_dtype(name) == name = "subject_length"

\* The datasets over the feature names: each column absent or with
\* 0..MaxValues non-missing values.
Datasets ==
    UNION {[cols -> 0..MaxValues] : cols \in SUBSET FeatureNames}

\* stats.chisquare(cur_aligned, ref_aligned) raises ValueError.
chisquare_raises(ref_values, cur_values, tests) ==
    tests.chisquare_checks_sums /\ ref_values # cur_values

\* The loop over feature_columns from the i-th on.
RECURSIVE data_drift_loop(_, _, _, _, _, _)
data_drift_loop(reference_data, current_data, feature_columns, tests, i, drift_results) ==
    IF i > Len(feature_columns)
    THEN drift_results
    ELSE LET column == feature_columns[i]
             skip == data_drift_loop(reference_data, current_data,
                                     feature_columns, tests, i + 1, drift_results)
         IN  IF ~(column \in DOMAIN reference_data /\ column \in DOMAIN current_data)
             THEN skip
             ELSE IF reference_data[column] = 0 \/ current_data[column] = 0
             THEN skip
             ELSE IF ~is_numeric_dtype(column)
                     /\ chisquare_raises(reference_data[column],
                                         current_data[column], tests)
             THEN skip
             ELSE data_drift_loop(
                      reference_data, current_data, feature_columns, tests, i + 1,
                      [c \in DOMAIN drift_results \cup {column} |->
                          IF c = column
                          THEN [test |-> IF is_numeric_dtype(column)
                                         THEN "Kolmogorov-Smirnov"
                                         ELSE "Chi-square",
                                p_value |-> tests.p_value[column],
                                drift_detected |->
                                    tests.p_value[column] < data_drift_threshold]
                          ELSE drift_results[c]])

detect_data_drift(reference_data, current_data, feature_columns, tests) ==
    Ret(data_drift_loop(reference_data, current_data, feature_columns, tests,
                        1, <<>>))

DetectDataDrift(reference_data, current_data, feature_columns, tests) ==
    /\ Unobserved
    /\ last' = MonCall("detect_data_drift",
                       [reference_data |-> reference_data,
                        current_data |-> current_data,
                        feature_columns |-> feature_columns,
                        tests |-> tests],
                       detect_data_drift(reference_data, current_data,
                                         feature_columns, tests))
    /\ UNCHANGED <<versions, runs, pc, loc, life, reports, now, predictions,
                   sched>>

NextDataDrift ==
    /\ Unobserved
    /\ \E reference_data \in Datasets, current_data \in Datasets,
          feature_columns \in {<<>>, <<"subject_length">>, <<"category">>,
                               <<"subject_length", "category">>},
          tests \in [p_value : [FeatureNames -> {10, 900}],
                     chisquare_checks_sums : BOOLEAN] :
           DetectDataDrift(reference_data, current_data, feature_columns, tests)

SpecDataDrift == Init /\ [][NextDataDrift]_vars

\* C30: detect_data_drift has an entry for exactly the named feature
\* columns that are in both datasets with a non-missing value on each side.
DataDriftEntries ==
    last.op = "detect_data_drift"
        => /\ ~last.ret.raised
           /\ DOMAIN last.ret.ok
                  = {c \in {last.args.feature_columns[i] :
                               i \in 1..Len(last.args.feature_columns)} :
                        /\ c \in DOMAIN last.args.reference_data
                        /\ c \in DOMAIN last.args.current_data
                        /\ last.args.reference_data[c] > 0
                        /\ last.args.current_data[c] > 0}

\* ======================================= promote_model, when it returns False
\* C31: a promote_model call that returns False leaves the stage of every
\* version as it was; with archive_existing=True and a version that does
\* not exist, the version in the target stage is still there.
FailedPromoteChangesNothing ==
    (last.op = "promote_model" /\ ~last.ret.raised /\ ~last.ret.ok)
        => versions = last.pre

\* ============================== detect_model_drift: the logs of the window
\* Directories of readable logs: of intent_classifier today, yesterday, on
\* the first day of the window, the day before it and tomorrow; a log of
\* the model intent_classifier_v2 and a log of reply_generator, of today.
WindowLogDirs ==
    LET names == {LogPath("intent_classifier", [parses |-> TRUE, day |-> d]) :
                     d \in {0, 0 - 1, 0 - WindowDays, 0 - WindowDays - 1, 1}}
                 \cup {LogPath("intent_classifier_v2", [parses |-> TRUE, day |-> 0]),
                       LogPath("reply_generator", [parses |-> TRUE, day |-> 0])}
        contents == {Absent, Scored(RowsPerLog - 3), Scored(RowsPerLog - 1)}
    IN  {[exists |-> TRUE,
          files |-> [p \in {q \in names : c[q] # Absent} |-> c[p]]] :
            c \in [names -> contents]}

NextWindow ==
    \/ Tick
    \/ \E dir \in WindowLogDirs : LogsFound(dir)
    \/ \E model_name \in Models : DetectModelDrift(model_name, WindowDays)

SpecWindow == Init /\ [][NextWindow]_vars

\* The logs of the directory that belong to the model of the call and are
\* dated d with now - window_days <= d <= now.
LogsOfWindow ==
    {p \in DOMAIN predictions.files :
        /\ p.prefix = last.args.model_name
        /\ p.date.parses
        /\ last.at - last.args.window_days * TicksPerDay <= p.date.day * TicksPerDay
        /\ p.date.day * TicksPerDay <= last.at}

\* C32: the result of detect_model_drift is the result on the directory
\* holding the logs of the model dated in the window alone: a log contributes
\* exactly when it is one of these, and no other log influences the verdict.
OnlyWindowLogsContribute ==
    last.op = "detect_model_drift"
        => last.ret
               = detect_model_drift(
                     [exists |-> TRUE,
                      files |-> [p \in LogsOfWindow |-> predictions.files[p]]],
                     last.args.model_name, last.args.window_days, last.at)

\* ============================== list_models and generate_model_report
\* The registry is filled and versions are promoted, with and without
\* archiving; then the models are listed or the report is written.
NextList ==
    \/ \E name \in Models : \E metrics \in MetricMapsOf(name) :
          Register(name, metrics, FALSE)
    \/ \E name \in Models, version \in 1..MaxVersions, stage \in Targets,
          archive_existing \in BOOLEAN :
          Promote(name, version, stage, archive_existing, FALSE)
    \/ \E stage \in Stages \cup {NoFilter} : ListModels(stage)
    \/ GenerateModelReport(TRUE)

SpecList == Init /\ [][NextList]_vars

\* The summary of version v of a model, in the registry before the call.
SummaryOf(name, v) ==
    [version |-> v, stage |-> last.pre[name][v].stage,
     metrics |-> last.preRuns[last.pre[name][v].run_id]]

\* C33: list_models(stage=S) returns only summaries of versions in S and
\* only models with such a version; list_models(None) returns every
\* registered model with the summaries of all its versions, whatever their
\* stage.
ListModelsContents ==
    last.op = "list_models"
        => LET models == last.ret.models
           IN  IF last.args.stage = NoFilter
               THEN /\ DOMAIN models = {name \in Models : Registered(last.pre, name)}
                    /\ \A name \in DOMAIN models :
                          models[name] = {SummaryOf(name, v) :
                                             v \in VersionsOf(last.pre, name)}
               ELSE \A name \in DOMAIN models :
                       /\ models[name] # {}
                       /\ \A x \in models[name] :
                             /\ x.version \in VersionsOf(last.pre, name)
                             /\ x = SummaryOf(name, x.version)
                             /\ x.stage = last.args.stage

\* C34: in the report written, total_models is the number of registered
\* models, production_models and staging_models are the numbers of versions
\* in Production and in Staging over all models, at the time of the call.
ReportSummaryCounts ==
    last.op = "generate_model_report"
        => LET summary == reports[last.ret.path].summary
               InStageOverall(stage) ==
                   {<<name, v>> \in Models \X (1..MaxVersions) :
                       v \in InStage(last.pre, name, stage)}
           IN  /\ summary.total_models
                      = Cardinality({name \in Models : Registered(last.pre, name)})
               /\ summary.production_models
                      = Cardinality(InStageOverall("Production"))
               /\ summary.staging_models
                      = Cardinality(InStageOverall("Staging"))

NextAlerting ==
    \/ \E name \in Models : \E metrics \in MetricMapsOf(name) :
          Register(name, metrics, FALSE)
    \/ \E name \in Models, version \in 1..MaxVersions :
          Promote(name, version, "Production", TRUE, FALSE)
    \/ \E enabled \in BOOLEAN,
          channels \in {<<>>,
                        FullConfig.alerting.channels,
                        <<[type |-> "email", destination |-> "ops@example.com"]>>,
                        <<[type |-> "slack"], [destination |-> "ops@example.com"]>>},
          run \in {[verdict |-> "no_drift", fails |-> "no"],
                   [verdict |-> "none", fails |-> "detector"]} :
          GenerateMonitoringReport(
              CycleInput("200", TRUE,
                         AllModels([files |-> "scored", accuracy |-> 70]),
                         AllModels(run),
                         [FullConfig EXCEPT !.alerting =
                             [enabled |-> enabled, channels |-> channels]]),
              TRUE)

SpecAlerting == Init /\ [][NextAlerting]_vars

\* C36: with alerting disabled send_alert attempts no delivery, and the
\* cycle's outcome (whether it returns, the report, its overall_status and
\* the files) is the one the same cycle has with alerting enabled.
AlertingLeavesReportAlone ==
    (last.op = "generate_monitoring_report" /\ ~last.args.cfg.alerting.enabled)
        => LET alerting == last.args.cfg.alerting
               enabled == generate_monitoring_report(
                              last.pre, last.preRuns, last.preReports,
                              [last.args EXCEPT !.cfg.alerting.enabled = TRUE],
                              last.at)
           IN  /\ send_alert(alerting, "Performance Alert").attempts = <<>>
               /\ send_alert(alerting, "Drift Alert").attempts = <<>>
               /\ enabled.ret = last.ret
               /\ enabled.fs = reports

\* The calls of send_alert in the cycle observed, by performance_monitoring
\* and by drift_monitoring.
AlertsRaised ==
    Cardinality(last.ret.report.performance_monitoring.alerts)
        + Cardinality(last.ret.report.drift_monitoring.alerts)

\* C37: summary.alerts_triggered of a monitoring report is the number of
\* alerts send_alert raised during the cycle, performance alerts and drift
\* alerts of all models together (alerting being enabled).
AlertsTriggeredCountsAlerts ==
    (/\ last.op = "generate_monitoring_report"
     /\ last.ret.ok
     /\ last.args.cfg.alerting.enabled)
        => /\ last.ret.report.summary.alerts_triggered = AlertsRaised
           /\ reports[last.ret.path].summary.alerts_triggered = AlertsRaised

====
